---- MODULE Spec2Model ----
(***************************************************************************)
(* A model of the text-extraction and comparison core of AncorPars.py.     *)
(*                                                                         *)
(* The pure functions of the program are operators over character          *)
(* sequences.  URLs are sequences of one-character strings; document and   *)
(* page texts are sequences of Unicode code points (the markers of the     *)
(* program are Cyrillic).  Each component has its own specification        *)
(* (SpecUrl, ...): Init draws the inputs of the function from a bounded    *)
(* set and one action applies the function, as the code computes it.       *)
(***************************************************************************)
EXTENDS Integers, Sequences, FiniteSets, TLC

VARIABLES
    url_pc,     \* LocaleUrlMapper: "input" | "ua" | "done", or "pair"
    ru_url,     \* the URL handed to generate_ukrainian_url
    ua_url,     \* generate_ukrainian_url(ru_url)
    back_url,   \* generate_russian_url(ua_url)
    ru_variant, \* generate_russian_url(ru_url): page_url_ru of the batch loop
    clean_pc,   \* TextNormalizer: "input" | "once" | "done"
    text,       \* the text handed to clean_text_for_comparison
    cleaned,    \* clean_text_for_comparison(text)
    recleaned,  \* clean_text_for_comparison(cleaned)
    ex_pc,      \* FragmentExtractor: "input" | "ru" | "done"
    doc_text,   \* the document text handed to both extractors
    ru,         \* extract_annotation_fragment(doc_text): its locals and result
    ua,         \* extract_ukrainian_annotation_fragment(doc_text): locals and result
    cmp_pc,       \* SimilarityEngine: "input" | "score" | "done"
    doc_fragment, \* compare_texts: the fragment
    page_text,    \* compare_texts: the page text
    threshold,    \* the sidebar's threshold slider
    chunk_size,   \* the sidebar's chunk size slider
    n_words,      \* compare_texts: len(words), -1 before words is computed
    chunks,       \* compare_texts: the kept windows
    scores,       \* compare_texts: the score of each kept window
    result,       \* compare_texts: (min_score, avg_score, missing_fragments)
    ref_pc,           \* ReferenceSectionLocator: "input" | "done"
    page_url,         \* extract_references_section: the page URL
    soup,             \* the parsed page: its container and the elements in it
    fetched,          \* requests.get returned the page
    refs,             \* extract_references_section: its locals and the returned list
    ed_pc,            \* EditorPresenceChecker: "input" | "done"
    ed_text,          \* check_editors_on_page: the page text
    has_editor,       \* check_editors_on_page: the boolean returned
    found_editors,    \* check_editors_on_page: the list returned
    rec_pc,           \* one pass of the batch loop: "input" | "done"
    row,              \* the worklist row: question, doc_url, base_page_url
    served,           \* what the document service and the site return for the row
    settings,         \* the sidebar: threshold and chunk_size
    calls,            \* what the pass fetched, extracted and handed to compare_texts
    appended,         \* the dict the pass appends to results
    data,             \* st.session_state.data: None, or the loaded worklist
    results,          \* st.session_state.results: absent, or the list of dicts
    display,          \* what the last script run showed below the button
    sidebar,          \* threshold, chunk_size and show_problems_only
    trace,            \* per row of the last check run: what was fetched and compared
    load_pc,          \* load_data_from_sheets: "input" | "done"
    all_values,       \* worksheet.get_all_values(): the rows of the sheet, header first
    new_columns,      \* load_data_from_sheets: the column names it assigns
    df                \* what load_data_from_sheets returns

urlVars == <<url_pc, ru_url, ua_url, back_url, ru_variant>>
cleanVars == <<clean_pc, text, cleaned, recleaned>>
exVars == <<ex_pc, doc_text, ru, ua>>
cmpVars == <<cmp_pc, doc_fragment, page_text, threshold, chunk_size, n_words, chunks,
             scores, result>>
refVars == <<ref_pc, page_url, soup, fetched, refs>>
edVars == <<ed_pc, ed_text, has_editor, found_editors>>
\* the components added after the reference section locator
recVars == <<rec_pc, row, served, settings, calls, appended>>
batVars == <<data, results, display, sidebar, trace>>
loadVars == <<load_pc, all_values, new_columns, df>>
restVars == <<edVars, recVars, batVars, loadVars>>
vars == <<urlVars, cleanVars, exVars, cmpVars, refVars, restVars>>

\* the variables of a component that a specification does not exercise
UrlIdle ==
    /\ url_pc = "idle" /\ ru_url = <<>> /\ ua_url = <<>> /\ back_url = <<>>
    /\ ru_variant = <<>>
CleanIdle == clean_pc = "idle" /\ text = <<>> /\ cleaned = <<>> /\ recleaned = <<>>
ExIdle == ex_pc = "idle" /\ doc_text = <<>> /\ ru = <<>> /\ ua = <<>>
CmpIdle ==
    /\ cmp_pc = "idle" /\ doc_fragment = <<>> /\ page_text = <<>> /\ threshold = 0
    /\ chunk_size = 0 /\ n_words = 0 /\ chunks = <<>> /\ scores = <<>> /\ result = <<>>
EdIdle == ed_pc = "idle" /\ ed_text = <<>> /\ has_editor = FALSE /\ found_editors = <<>>
RecIdle ==
    /\ rec_pc = "idle" /\ row = <<>> /\ served = <<>> /\ settings = <<>>
    /\ calls = <<>> /\ appended = <<>>
BatIdle ==
    data = <<>> /\ results = <<>> /\ display = <<>> /\ sidebar = <<>> /\ trace = <<>>
LoadIdle == load_pc = "idle" /\ all_values = <<>> /\ new_columns = <<>> /\ df = <<>>
RestIdle == EdIdle /\ RecIdle /\ BatIdle /\ LoadIdle
RefIdle ==
    /\ ref_pc = "idle" /\ page_url = <<>> /\ soup = <<>> /\ fetched = FALSE
    /\ refs = <<>>

(***************************************************************************)
(* Sequences as strings                                                    *)
(***************************************************************************)
SetMin(S) == CHOOSE x \in S : \A y \in S : x <= y
SetMax(S) == 0 - SetMin({0 - x : x \in S})

\* s[a..b] as Python's s[a-1:b]; empty when a > b
Slice(s, a, b) == IF a > b THEN <<>> ELSE SubSeq(s, a, b)

\* does sub occur in s at index i (1-based)
MatchAt(s, sub, i) ==
    /\ i >= 1
    /\ i + Len(sub) - 1 <= Len(s)
    /\ \A k \in 1..Len(sub) : s[i + k - 1] = sub[k]

\* str.startswith, the `in` operator on strings
StartsWith(s, sub) == MatchAt(s, sub, 1)
Contains(s, sub) == \E i \in 1..(Len(s) + 1) : MatchAt(s, sub, i)

\* index of the first character of s, at or after from, that is in the set C; 0 if none
FindChar(s, C, from) ==
    LET P == {i \in from..Len(s) : s[i] \in C}
    IN  IF P = {} THEN 0 ELSE SetMin(P)

\* index of the last character of s that is in the set C; 0 if none (str.rfind)
RFindChar(s, C) ==
    LET P == {i \in 1..Len(s) : s[i] \in C}
    IN  IF P = {} THEN 0 ELSE SetMax(P)

\* all sequences over A of length 0..n
SeqsUpTo(A, n) == UNION {[1..k -> A] : k \in 0..n}

\* the printable ASCII characters, from ' ' (code point 32) to '~' (126); the
\* place of the grave accent (96), which no URL of the model holds, is empty
Ascii ==
  <<" ", "!", "\"", "#", "$", "%", "&", "'", "(", ")", "*", "+", ",", "-", ".", "/",
      "0", "1", "2", "3", "4", "5", "6", "7", "8", "9", ":", ";", "<", "=", ">", "?",
      "@", "A", "B", "C", "D", "E", "F", "G", "H", "I", "J", "K", "L", "M", "N", "O",
      "P", "Q", "R", "S", "T", "U", "V", "W", "X", "Y", "Z", "[", "\\", "]", "^", "_",
      "", "a", "b", "c", "d", "e", "f", "g", "h", "i", "j", "k", "l", "m", "n", "o",
      "p", "q", "r", "s", "t", "u", "v", "w", "x", "y", "z", "{", "|", "}", "~">>

\* chr and ord on the printable ASCII characters
Chr(c) == Ascii[c - 31]
Ord(ch) == CHOOSE c \in 32..126 : Ascii[c - 31] = ch

\* a text of code points as a sequence of one-character strings, and back
ToUrl(s) == [i \in 1..Len(s) |-> Chr(s[i])]
FromUrl(u) == [i \in 1..Len(u) |-> Ord(u[i])]

(***************************************************************************)
(* urllib.parse as the two URL functions use it                            *)
(***************************************************************************)
\* scheme_chars: the ASCII letters, the digits and '+', '-', '.'
AsciiLetters == {Chr(c) : c \in (65..90) \cup (97..122)}
SchemeChars == AsciiLetters \cup {Chr(c) : c \in 48..57} \cup {"+", "-", "."}
UsesParams == {<<"h","t","t","p">>, <<"h","t","t","p","s">>, <<>>}
UsesNetloc == {<<"h","t","t","p">>, <<"h","t","t","p","s">>, <<>>}

\* str.lower on a sequence of ASCII characters
LowerAscii(u) ==
    [i \in 1..Len(u) |->
        IF Ord(u[i]) \in 65..90 THEN Chr(Ord(u[i]) + 32) ELSE u[i]]

\* urlsplit: the scheme is the text up to the first ':' when it starts with a
\* letter and is made of scheme characters; it is lower-cased
SplitScheme(u) ==
    LET i == FindChar(u, {":"}, 1)
    IN  IF i > 1 /\ u[1] \in AsciiLetters /\ \A k \in 1..(i - 1) : u[k] \in SchemeChars
        THEN [scheme |-> LowerAscii(Slice(u, 1, i - 1)), rest |-> Slice(u, i + 1, Len(u))]
        ELSE [scheme |-> <<>>, rest |-> u]

\* urlsplit: '//' starts the netloc, which runs to the first of '/', '?', '#'
SplitNetloc(r) ==
    IF StartsWith(r, <<"/", "/">>)
    THEN LET d == FindChar(r, {"/", "?", "#"}, 3)
             e == IF d = 0 THEN Len(r) + 1 ELSE d
         IN  [netloc |-> Slice(r, 3, e - 1), rest |-> Slice(r, e, Len(r))]
    ELSE [netloc |-> <<>>, rest |-> r]

\* url.split('#', 1) and url.split('?', 1): [head, tail]; tail empty when absent
SplitOnce(s, c) ==
    LET i == FindChar(s, {c}, 1)
    IN  IF i = 0 THEN [head |-> s, tail |-> <<>>]
        ELSE [head |-> Slice(s, 1, i - 1), tail |-> Slice(s, i + 1, Len(s))]

\* _splitparams: the first ';' after the last '/' of the path
SplitParams(p) ==
    LET slash == RFindChar(p, {"/"})
        i == FindChar(p, {";"}, IF slash = 0 THEN 1 ELSE slash)
    IN  IF i = 0 THEN [head |-> p, tail |-> <<>>]
        ELSE [head |-> Slice(p, 1, i - 1), tail |-> Slice(p, i + 1, Len(p))]

\* urlparse(url): (scheme, netloc, path, params, query, fragment)
urlparse(u) ==
    LET s == SplitScheme(u)
        n == SplitNetloc(s.rest)
        f == SplitOnce(n.rest, "#")
        q == SplitOnce(f.head, "?")
        p == IF s.scheme \in UsesParams /\ Contains(q.head, <<";">>)
             THEN SplitParams(q.head)
             ELSE [head |-> q.head, tail |-> <<>>]
    IN  [scheme |-> s.scheme, netloc |-> n.netloc, path |-> p.head,
         params |-> p.tail, query |-> q.tail, fragment |-> f.tail]

\* urlunparse(parts): params, netloc, scheme, query and fragment are written
\* only when non-empty
urlunparse(x) ==
    LET u1 == IF x.params # <<>> THEN x.path \o <<";">> \o x.params ELSE x.path
        u2 == IF x.netloc # <<>>
                 \/ (x.scheme # <<>> /\ x.scheme \in UsesNetloc
                     /\ ~StartsWith(u1, <<"/", "/">>))
              THEN <<"/", "/">> \o x.netloc
                   \o (IF u1 # <<>> /\ u1[1] # "/" THEN <<"/">> ELSE <<>>) \o u1
              ELSE u1
        u3 == IF x.scheme # <<>> THEN x.scheme \o <<":">> \o u2 ELSE u2
        u4 == IF x.query # <<>> THEN u3 \o <<"?">> \o x.query ELSE u3
    IN  IF x.fragment # <<>> THEN u4 \o <<"#">> \o x.fragment ELSE u4

(***************************************************************************)
(* LocaleUrlMapper                                                         *)
(***************************************************************************)
UaSegment == <<"/", "u", "a", "/">>

\* '/ua' + path, or '/ua/' + path for a path without a leading slash
UaNewPath(path) ==
    IF StartsWith(path, <<"/">>) THEN <<"/", "u", "a">> \o path
    ELSE UaSegment \o path

generate_ukrainian_url(u) ==
    IF u = <<>> THEN <<>>
    ELSE LET parsed == urlparse(u)
             base == parsed.scheme \o <<":", "/", "/">> \o parsed.netloc
                     \o UaNewPath(parsed.path)
             withq == IF parsed.query # <<>>
                      THEN base \o <<"?">> \o parsed.query ELSE base
         IN  IF Contains(parsed.path, UaSegment) THEN u
             ELSE IF parsed.fragment # <<>>
                  THEN withq \o <<"#">> \o parsed.fragment ELSE withq

\* RuNewPath with the slice taken one character late (path[4:]), which drops the
\* slash that path[3:] keeps
RuNewPathBadSlice(path) ==
    IF StartsWith(path, UaSegment) THEN Slice(path, 5, Len(path))
    ELSE IF path = <<"/", "u", "a">> THEN <<"/">>
    ELSE path

\* path[3:] for a path that starts with '/ua/'; '/' for the path '/ua'
RuNewPath(path) ==
    IF StartsWith(path, UaSegment) THEN Slice(path, 4, Len(path))
    ELSE IF path = <<"/", "u", "a">> THEN <<"/">>
    ELSE path

generate_russian_url(u) ==
    IF u = <<>> THEN <<>>
    ELSE LET parsed == urlparse(u)
         IN  urlunparse([parsed EXCEPT !.path = RuNewPath(parsed.path)])

(***************************************************************************)
(* SpecUrl: the round trip toPrimary(toSecondary(url))                     *)
(***************************************************************************)
MaxUrlTail == 5

UrlAlphabet == {"/", "u", "a", "?", "#", ";"}
UrlPrefixes == {<<"h","t","t","p","s",":","/","/","n">>, <<>>}
UrlInputs == {p \o t : p \in UrlPrefixes, t \in SeqsUpTo(UrlAlphabet, MaxUrlTail)}

InitUrl ==
    /\ url_pc = "input"
    /\ ru_url \in UrlInputs
    /\ ua_url = <<>>
    /\ back_url = <<>>
    /\ ru_variant = <<>>
    /\ CleanIdle
    /\ ExIdle
    /\ CmpIdle
    /\ RefIdle
    /\ RestIdle

ToSecondary ==
    /\ url_pc = "input"
    /\ ua_url' = generate_ukrainian_url(ru_url)
    /\ url_pc' = "ua"
    /\ UNCHANGED <<ru_url, back_url, ru_variant, cleanVars, exVars, cmpVars, refVars,
                   restVars>>

ToPrimary ==
    /\ url_pc = "ua"
    /\ back_url' = generate_russian_url(ua_url)
    /\ url_pc' = "done"
    /\ UNCHANGED <<ru_url, ua_url, ru_variant, cleanVars, exVars, cmpVars, refVars,
                   restVars>>

\* base_page_url.startswith('http://') or base_page_url.startswith('https://')
ValidBase(u) ==
    \/ StartsWith(u, <<"h", "t", "t", "p", ":", "/", "/">>)
    \/ StartsWith(u, <<"h", "t", "t", "p", "s", ":", "/", "/">>)

\* the batch loop derives the URL of each locale from the base URL of a row that
\* passed the validity check
DeriveLocales ==
    /\ url_pc = "input"
    /\ ValidBase(ru_url)
    /\ ru_variant' = generate_russian_url(ru_url)
    /\ ua_url' = generate_ukrainian_url(ru_url)
    /\ url_pc' = "pair"
    /\ UNCHANGED <<ru_url, back_url, cleanVars, exVars, cmpVars, refVars, restVars>>

NextUrl == ToSecondary \/ ToPrimary \/ DeriveLocales

SpecUrl == InitUrl /\ [][NextUrl]_vars

Https == <<"h", "t", "t", "p", "s">>

\* the '/ua' segment occurs in path at index i: '/ua' followed by '/' or the end
UaSegmentAt(path, i) ==
    /\ MatchAt(path, <<"/", "u", "a">>, i)
    /\ (i + 3 > Len(path) \/ path[i + 3] = "/")

\* the path has no '/ua' segment other than immediately after the leading slash
NoUaElsewhere(path) == \A i \in 2..Len(path) : ~UaSegmentAt(path, i)

\* C1 as stated: for every URL whose path does not contain the '/ua' segment
\* anywhere other than immediately after the leading slash (an empty path and a
\* path that already starts with /ua/ included),
\* generate_russian_url(generate_ukrainian_url(url)) returns exactly url.
C1_RoundTripAsStated ==
    (/\ url_pc = "done"
     /\ urlparse(ru_url).scheme = Https
     /\ urlparse(ru_url).netloc # <<>>
     /\ NoUaElsewhere(urlparse(ru_url).path))
    => back_url = ru_url

\* the URLs the amended C1 covers: https://host/path[?query][#fragment] with a
\* non-empty path that does not start with '/ua/', no ';' parameters, and
\* written the way urlunparse writes it (no empty '?', '#' or ';' marker)
C1_Covered(u) ==
    LET x == urlparse(u)
    IN  /\ x.scheme = Https
        /\ x.netloc # <<>>
        /\ x.path # <<>>
        /\ ~StartsWith(x.path, UaSegment)
        /\ x.params = <<>>
        /\ urlunparse(x) = u

\* C1 (amended): for every http(s) URL with a non-empty path that does not start
\* with '/ua/', without ';' parameters and without an empty '?' or '#' marker,
\* generate_russian_url(generate_ukrainian_url(url)) returns exactly url.
C1_RoundTrip ==
    (url_pc = "done" /\ C1_Covered(ru_url)) => back_url = ru_url

\* C1 witness: a covered URL with a query and a fragment was mapped to its /ua/
\* variant and back
C1_Witness ==
    /\ url_pc = "done"
    /\ C1_Covered(ru_url)
    /\ urlparse(ru_url).query # <<>>
    /\ urlparse(ru_url).fragment # <<>>
    /\ StartsWith(urlparse(ua_url).path, UaSegment)
    /\ ua_url # ru_url
    /\ back_url = ru_url

(***************************************************************************)
(* Text: sequences of Unicode code points                                  *)
(***************************************************************************)
NL == 10          \* '\n'
CR == 13          \* '\r'
SP == 32          \* ' '
HASH == 35        \* '#'
STAR == 42        \* '*'
HYPHEN == 45      \* '-'
DOT == 46         \* '.'
COLON == 58       \* ':'
LT == 60          \* '<'
GT == 62          \* '>'
LBRACKET == 91    \* '['
RBRACKET == 93    \* ']'
CARET == 94       \* '^'
USCORE == 95      \* '_'
NBSP == 160       \* '\xa0'
ENDASH == 8211    \* '\u2013'
EMDASH == 8212    \* '\u2014'

\* the characters the regex class \s matches in a str pattern
WhiteSpace == (9..13) \cup (28..32) \cup {133, NBSP, 5760, 8232, 8233, 8239, 8287, 12288}
                 \cup (8192..8202)

\* str.lower on Latin and Cyrillic letters
LowerChar(c) ==
    IF c \in 65..90 \/ c \in 1040..1071 THEN c + 32
    ELSE IF c \in 1024..1039 THEN c + 80
    ELSE c
Lower(s) == [i \in 1..Len(s) |-> LowerChar(s[i])]

\* str.replace of one character by another
ReplaceChar(s, from, to) == [i \in 1..Len(s) |-> IF s[i] = from THEN to ELSE s[i]]

\* the characters of s at the indices that Keep accepts, in order
KeepAt(s, Keep(_)) ==
    LET tagged == [i \in 1..Len(s) |-> [c |-> s[i], keep |-> Keep(i)]]
        kept == SelectSeq(tagged, LAMBDA e : e.keep)
    IN  [i \in 1..Len(kept) |-> kept[i].c]

\* last index of the run of characters of C that starts at i (i - 1 when s[i] is not in C)
RunEnd(s, C, i) ==
    LET N == {k \in i..Len(s) : s[k] \notin C}
    IN  IF N = {} THEN Len(s) ELSE SetMin(N) - 1

\* re.sub: End(s, i) is the last index of the match that starts at i (0: no match
\* at i), Repl(s, i, e) what replaces s[i..e]; matches are taken leftmost first and
\* do not overlap
RECURSIVE ReSub(_, _, _, _)
ReSub(End(_, _), Repl(_, _, _), s, from) ==
    LET starts == {i \in from..Len(s) : End(s, i) > 0}
    IN  IF starts = {} THEN Slice(s, from, Len(s))
        ELSE LET i == SetMin(starts)
                 e == End(s, i)
             IN  Slice(s, from, i - 1) \o Repl(s, i, e) \o ReSub(End, Repl, s, e + 1)

ReplSpace(s, i, e) == <<SP>>

\* re.sub(r'\s+', ' ', t)
CollapseSpace(s) ==
    LET spaced == [i \in 1..Len(s) |-> IF s[i] \in WhiteSpace THEN SP ELSE s[i]]
    IN  KeepAt(spaced, LAMBDA i : ~(spaced[i] = SP /\ i > 1 /\ spaced[i - 1] = SP))

\* str.strip()
Strip(s) ==
    LET N == {i \in 1..Len(s) : s[i] \notin WhiteSpace}
    IN  IF N = {} THEN <<>> ELSE SubSeq(s, SetMin(N), SetMax(N))

(***************************************************************************)
(* clean_text_for_comparison                                               *)
(***************************************************************************)
\* t.replace('\r\n', '\n').replace('\r', '\n')
NormalizeNewlines(s) ==
    ReplaceChar(KeepAt(s, LAMBDA i : ~(s[i] = CR /\ i < Len(s) /\ s[i + 1] = NL)), CR, NL)

NoNewline(s, a, b) == \A k \in a..b : s[k] # NL

\* <[^>]+> : '<', then the first '>' after it, with at least one character between
TagEnd(s, i) ==
    IF s[i] # LT THEN 0
    ELSE LET j == FindChar(s, {GT}, i + 1)
         IN  IF j >= i + 2 THEN j ELSE 0

\* (\*\*|__)(.*?)\1 : a doubled marker, then the nearest later occurrence of the
\* same doubled marker on the same line
BoldClose(s, i) ==
    LET K == {k \in (i + 2)..(Len(s) - 1) : s[k] = s[i] /\ s[k + 1] = s[i]}
    IN  IF K = {} THEN 0 ELSE SetMin(K)
BoldEnd(s, i) ==
    IF ~(i < Len(s) /\ s[i] \in {STAR, USCORE} /\ s[i + 1] = s[i]) THEN 0
    ELSE LET k == BoldClose(s, i)
         IN  IF k > 0 /\ NoNewline(s, i + 2, k - 1) THEN k + 1 ELSE 0
BoldRepl(s, i, e) == Slice(s, i + 2, e - 2)

\* (?<!\*)\*(?!\*) : an asterisk with no asterisk next to it becomes a space
SingleStars(s) ==
    [i \in 1..Len(s) |->
        IF /\ s[i] = STAR
           /\ ~(i > 1 /\ s[i - 1] = STAR)
           /\ ~(i < Len(s) /\ s[i + 1] = STAR)
        THEN SP ELSE s[i]]

\* _(.*?)_ : an underscore and the next underscore on the same line
ItalicEnd(s, i) ==
    IF s[i] # USCORE THEN 0
    ELSE LET k == FindChar(s, {USCORE}, i + 1)
         IN  IF k > 0 /\ NoNewline(s, i + 1, k - 1) THEN k ELSE 0
ItalicRepl(s, i, e) == Slice(s, i + 1, e - 1)

\* (?m)^\s{0,3}#+\s* : at the start of a line, at most three whitespace
\* characters, a run of '#', and the whitespace after it
HeadingEnd(s, i) ==
    IF ~(i = 1 \/ s[i - 1] = NL) THEN 0
    ELSE LET h == RunEnd(s, WhiteSpace, i) + 1
         IN  IF h - i <= 3 /\ h <= Len(s) /\ s[h] = HASH
             THEN RunEnd(s, WhiteSpace, RunEnd(s, {HASH}, h) + 1)
             ELSE 0

\* \[\^?.*?\] : '[' and the first ']' after it on the same line
BracketEnd(s, i) ==
    IF s[i] # LBRACKET THEN 0
    ELSE LET k == FindChar(s, {RBRACKET}, i + 1)
         IN  IF k > 0 /\ NoNewline(s, i + 1, k - 1) THEN k ELSE 0

\* [\-\u2014]{2,} : a run of two or more hyphens and em dashes
DashEnd(s, i) ==
    IF s[i] \notin {HYPHEN, EMDASH} THEN 0
    ELSE LET e == RunEnd(s, {HYPHEN, EMDASH}, i)
         IN  IF e >= i + 1 THEN e ELSE 0

\* \.\.{2,} : a run of three or more dots
DotsEnd(s, i) ==
    IF s[i] # DOT THEN 0
    ELSE LET e == RunEnd(s, {DOT}, i)
         IN  IF e >= i + 2 THEN e ELSE 0

clean_text_for_comparison(txt) ==
    IF txt = <<>> THEN <<>>
    ELSE LET t1 == NormalizeNewlines(ReplaceChar(txt, NBSP, SP))
             t2 == ReSub(TagEnd, ReplSpace, t1, 1)
             t3 == ReSub(BoldEnd, BoldRepl, t2, 1)
             t4 == SingleStars(t3)
             t5 == ReSub(ItalicEnd, ItalicRepl, t4, 1)
             t6 == ReSub(HeadingEnd, ReplSpace, t5, 1)
             t7 == ReSub(BracketEnd, ReplSpace, t6, 1)
             t8 == ReSub(DashEnd, ReplSpace, t7, 1)
             t9 == ReSub(DotsEnd, ReplSpace, t8, 1)
             t10 == ReplaceChar(ReplaceChar(t9, STAR, SP), USCORE, SP)
         IN  Strip(CollapseSpace(t10))

(***************************************************************************)
(* SpecClean: the comparison cleaner applied to its own output             *)
(***************************************************************************)
MaxCleanLen == 4

LetterA == 97     \* 'a', any character that is no markup

CleanAlphabet == {SP, NL, HASH, STAR, USCORE, LT, GT, LBRACKET, RBRACKET, HYPHEN,
                  DOT, LetterA}

InitClean ==
    /\ clean_pc = "input"
    /\ text \in SeqsUpTo(CleanAlphabet, MaxCleanLen)
    /\ cleaned = <<>>
    /\ recleaned = <<>>
    /\ UrlIdle
    /\ ExIdle
    /\ CmpIdle
    /\ RefIdle
    /\ RestIdle

CleanOnce ==
    /\ clean_pc = "input"
    /\ cleaned' = clean_text_for_comparison(text)
    /\ clean_pc' = "once"
    /\ UNCHANGED <<text, recleaned, urlVars, exVars, cmpVars, refVars, restVars>>

CleanTwice ==
    /\ clean_pc = "once"
    /\ recleaned' = clean_text_for_comparison(cleaned)
    /\ clean_pc' = "done"
    /\ UNCHANGED <<text, cleaned, urlVars, exVars, cmpVars, refVars, restVars>>

NextClean == CleanOnce \/ CleanTwice

SpecClean == InitClean /\ [][NextClean]_vars

\* C2: clean_text_for_comparison(clean_text_for_comparison(T)) =
\* clean_text_for_comparison(T) for every text T: a second pass of the cleaner
\* changes nothing.
C2_Idempotent == clean_pc = "done" => recleaned = cleaned

(***************************************************************************)
(* FragmentExtractor                                                       *)
(***************************************************************************)
Annotaciya == <<1040, 1085, 1085, 1086, 1090, 1072, 1094, 1080, 1103>>   \* 'Аннотация'
AnnotaciyaUk == <<1040, 1085, 1085, 1086, 1090, 1072, 1094, 1110, 1103>> \* 'Аннотація'
Ankor == <<1040, 1085, 1082, 1086, 1088>>                                \* 'Анкор'
Anchor == <<65, 110, 99, 104, 111, 114>>                                 \* 'Anchor'
AnkorLatinO == <<1040, 1085, 1082, 111, 1088>>                           \* 'Анкoр'
\* 'Перевод аннотации', 'Переклад аннотації', 'Перевод аннотації', 'Переклад аннотации'
PerevodAnnotacii ==
    <<1055, 1077, 1088, 1077, 1074, 1086, 1076, 32,
      1072, 1085, 1085, 1086, 1090, 1072, 1094, 1080, 1080>>
PerekladAnnotaciiUk ==
    <<1055, 1077, 1088, 1077, 1082, 1083, 1072, 1076, 32,
      1072, 1085, 1085, 1086, 1090, 1072, 1094, 1110, 1111>>
PerevodAnnotaciiUk ==
    <<1055, 1077, 1088, 1077, 1074, 1086, 1076, 32,
      1072, 1085, 1085, 1086, 1090, 1072, 1094, 1110, 1111>>
PerekladAnnotacii ==
    <<1055, 1077, 1088, 1077, 1082, 1083, 1072, 1076, 32,
      1072, 1085, 1085, 1086, 1090, 1072, 1094, 1080, 1080>>
perevod == <<1087, 1077, 1088, 1077, 1074, 1086, 1076>>                  \* 'перевод'
pereklad == <<1087, 1077, 1088, 1077, 1082, 1083, 1072, 1076>>           \* 'переклад'

start_patterns == <<Annotaciya, AnnotaciyaUk>>
end_patterns_primary == <<Ankor, Anchor, AnkorLatinO>>
end_patterns_secondary ==
    <<PerevodAnnotacii, PerekladAnnotaciiUk, PerevodAnnotaciiUk, PerekladAnnotacii>>

LookBack == 20

\* t.replace('\xa0', ' ') and re.sub(r'\s+', ' ', t)
NormalizeSpaces(s) == CollapseSpace(ReplaceChar(s, NBSP, SP))

\* pat occurs in s at index i, ignoring case (re.IGNORECASE)
MatchAtCI(s, pat, i) ==
    /\ i >= 1
    /\ i + Len(pat) - 1 <= Len(s)
    /\ \A k \in 1..Len(pat) : LowerChar(s[i + k - 1]) = LowerChar(pat[k])

\* the alternation (p1|p2|...) matches at i; the first alternative that matches is taken
AltAt(s, pats, i) == \E n \in 1..Len(pats) : MatchAtCI(s, pats[n], i)
AltLen(s, pats, i) == Len(pats[SetMin({n \in 1..Len(pats) : MatchAtCI(s, pats[n], i)})])

\* match.end() of (p1|p2|...)\s*[:\-\u2013\u2014]* for the match that starts at i, as
\* the index of the last character matched
MarkerEnd(s, pats, i) ==
    RunEnd(s, {COLON, HYPHEN, ENDASH, EMDASH},
           RunEnd(s, WhiteSpace, i + AltLen(s, pats, i)) + 1)

\* re.search(s, pos): the start of the first match at or after pos, 0 when none
Search(s, pats, pos) ==
    LET P == {i \in pos..Len(s) : AltAt(s, pats, i)}
    IN  IF P = {} THEN 0 ELSE SetMin(P)

\* 'перевод' or 'переклад' in t[max(0, start_idx - 20):start_idx].lower(), with a
\* look-back of half the length
ExcludedShortLookBack(t, i) ==
    LET before_text == Lower(Slice(t, IF i - 10 > 1 THEN i - 10 ELSE 1, i - 1))
    IN  Contains(before_text, perevod) \/ Contains(before_text, pereklad)

\* 'перевод' or 'переклад' in t[max(0, start_idx - 20):start_idx].lower()
Excluded(t, i) ==
    LET before_text == Lower(Slice(t, IF i - LookBack > 1 THEN i - LookBack ELSE 1, i - 1))
    IN  Contains(before_text, perevod) \/ Contains(before_text, pereklad)

\* the first match of start_re that is not excluded (its start; 0 when none)
StartMatch(t) ==
    LET P == {i \in 1..Len(t) : AltAt(t, start_patterns, i) /\ ~Excluded(t, i)}
    IN  IF P = {} THEN 0 ELSE SetMin(P)

\* the end match taken as the nearest marker of either set
EndMatchNearest(t, start_pos) ==
    LET p == Search(t, end_patterns_primary, start_pos)
        q == Search(t, end_patterns_secondary, start_pos)
    IN  IF p = 0 THEN q ELSE IF q = 0 THEN p ELSE IF p < q THEN p ELSE q

\* end_re_primary.search(t, pos=start_pos), and end_re_secondary only when that
\* finds nothing (the start of the match; 0 when none)
EndMatch(t, start_pos) ==
    LET p == Search(t, end_patterns_primary, start_pos)
    IN  IF p > 0 THEN p ELSE Search(t, end_patterns_secondary, start_pos)

\* the locals and the result of extract_annotation_fragment(txt); indices are
\* 1-based, start_pos is the index of the first character after the start match
extract_annotation_fragment(txt) ==
    IF txt = <<>>
    THEN [t |-> <<>>, start_idx |-> 0, start_pos |-> 0, end_idx |-> 0, fragment |-> <<>>]
    ELSE LET t == NormalizeSpaces(txt)
             i == StartMatch(t)
             start_pos == MarkerEnd(t, start_patterns, i) + 1
             e == EndMatch(t, start_pos)
         IN  IF i = 0
             THEN [t |-> t, start_idx |-> 0, start_pos |-> 0, end_idx |-> 0,
                   fragment |-> Strip(t)]
             ELSE [t |-> t, start_idx |-> i, start_pos |-> start_pos, end_idx |-> e,
                   fragment |-> Strip(Slice(t, start_pos, IF e > 0 THEN e - 1 ELSE Len(t)))]

\* re.sub(r'[\*_#]{1,}', ' ', fragment), re.sub(r'\s+', ' ', fragment).strip()
StripEmphasis(f) ==
    Strip(CollapseSpace([i \in 1..Len(f) |->
                            IF f[i] \in {STAR, USCORE, HASH} THEN SP ELSE f[i]]))

\* what the extractor returns when no start marker is found, as a fall-back to the
\* whole text
UaNotFoundWholeText(t) == Strip(t)

\* what extract_ukrainian_annotation_fragment returns when no start marker is found
UaNotFound(t) == <<>>

\* the locals and the result of extract_ukrainian_annotation_fragment(txt)
extract_ukrainian_annotation_fragment(txt) ==
    IF txt = <<>>
    THEN [t |-> <<>>, start_idx |-> 0, start_pos |-> 0, end_idx |-> 0, fragment |-> <<>>]
    ELSE LET t == NormalizeSpaces(txt)
             i == Search(t, end_patterns_secondary, 1)
             start_pos == MarkerEnd(t, end_patterns_secondary, i) + 1
             e == Search(t, end_patterns_primary, start_pos)
         IN  IF i = 0
             THEN [t |-> t, start_idx |-> 0, start_pos |-> 0, end_idx |-> 0,
                   fragment |-> UaNotFound(t)]
             ELSE [t |-> t, start_idx |-> i, start_pos |-> start_pos, end_idx |-> e,
                   fragment |->
                       StripEmphasis(Slice(t, start_pos, IF e > 0 THEN e - 1 ELSE Len(t)))]

(***************************************************************************)
(* SpecExtract: both extractors on one document text                       *)
(***************************************************************************)
MaxDocTokens == 4

\* the pieces document texts are built from
DocTokens ==
    { Annotaciya,
      <<1072, 1085, 1085, 1086, 1090, 1072, 1094, 1110, 1103>>,   \* 'аннотація'
      <<1055, 1077, 1088, 1077, 1074, 1086, 1076>>,               \* 'Перевод'
      PerekladAnnotaciiUk,
      Ankor,
      <<COLON>>,
      <<NBSP>>,
      <<STAR>>,
      <<105, 112, 115, 117, 109, 32, 100, 111, 108, 111, 114, 46>> } \* 'ipsum dolor.'

\* 'Intro. Аннотация: Lorem ipsum dolor. Анкор: ссылка'
ScenarioText ==
    <<73, 110, 116, 114, 111, 46, 32, 1040, 1085, 1085, 1086, 1090, 1072, 1094, 1080,
      1103, 58, 32, 76, 111, 114, 101, 109, 32, 105, 112, 115, 117, 109, 32, 100, 111,
      108, 111, 114, 46, 32, 1040, 1085, 1082, 1086, 1088, 58, 32, 1089, 1089, 1099,
      1083, 1082, 1072>>
\* 'Перевод: Аннотация ipsum dolor. Аннотация: Lorem ipsum dolor. Анкор: x'
ScenarioSkipped ==
    <<1055, 1077, 1088, 1077, 1074, 1086, 1076, 58, 32, 1040, 1085, 1085, 1086, 1090,
      1072, 1094, 1080, 1103, 32, 105, 112, 115, 117, 109, 32, 100, 111, 108, 111,
      114, 46, 32, 1040, 1085, 1085, 1086, 1090, 1072, 1094, 1080, 1103, 58, 32, 76,
      111, 114, 101, 109, 32, 105, 112, 115, 117, 109, 32, 100, 111, 108, 111, 114,
      46, 32, 1040, 1085, 1082, 1086, 1088, 58, 32, 120>>
\* 'Аннотация - Lorem ipsum dolor. Перевод аннотации: **Lorem** ipsum. ANCHOR: x'
ScenarioBoth ==
    <<1040, 1085, 1085, 1086, 1090, 1072, 1094, 1080, 1103, 32, 45, 32, 76, 111, 114,
      101, 109, 32, 105, 112, 115, 117, 109, 32, 100, 111, 108, 111, 114, 46, 32,
      1055, 1077, 1088, 1077, 1074, 1086, 1076, 32, 1072, 1085, 1085, 1086, 1090,
      1072, 1094, 1080, 1080, 58, 32, 42, 42, 76, 111, 114, 101, 109, 42, 42, 32,
      105, 112, 115, 117, 109, 46, 32, 65, 78, 67, 72, 79, 82, 58, 32, 120>>
LoremIpsumDolor ==
    <<76, 111, 114, 101, 109, 32, 105, 112, 115, 117, 109, 32, 100, 111, 108, 111, 114, 46>>

RECURSIVE Flatten(_)
Flatten(toks) == IF toks = <<>> THEN <<>> ELSE Head(toks) \o Flatten(Tail(toks))

DocTexts == {Flatten(toks) : toks \in SeqsUpTo(DocTokens, MaxDocTokens)} \cup {ScenarioText, ScenarioSkipped, ScenarioBoth}

NoResult == [t |-> <<>>, start_idx |-> 0, start_pos |-> 0, end_idx |-> 0, fragment |-> <<>>]

InitExtract ==
    /\ ex_pc = "input"
    /\ doc_text \in DocTexts
    /\ ru = NoResult
    /\ ua = NoResult
    /\ UrlIdle
    /\ CleanIdle
    /\ CmpIdle
    /\ RefIdle
    /\ RestIdle

ExtractRu ==
    /\ ex_pc = "input"
    /\ ru' = extract_annotation_fragment(doc_text)
    /\ ex_pc' = "ru"
    /\ UNCHANGED <<doc_text, ua, urlVars, cleanVars, cmpVars, refVars, restVars>>

ExtractUa ==
    /\ ex_pc = "ru"
    /\ ua' = extract_ukrainian_annotation_fragment(doc_text)
    /\ ex_pc' = "done"
    /\ UNCHANGED <<doc_text, ru, urlVars, cleanVars, cmpVars, refVars, restVars>>

NextExtract == ExtractRu \/ ExtractUa

SpecExtract == InitExtract /\ [][NextExtract]_vars

\* the start markers, the end markers and the exclusion terms as the claims name them
C3_StartMarkerAt(t, i) == MatchAtCI(t, Annotaciya, i) \/ MatchAtCI(t, AnnotaciyaUk, i)
PrimaryEndAt(t, i) ==
    MatchAtCI(t, Ankor, i) \/ MatchAtCI(t, Anchor, i) \/ MatchAtCI(t, AnkorLatinO, i)
SecondaryMarkerAt(t, i) ==
    \/ MatchAtCI(t, PerevodAnnotacii, i) \/ MatchAtCI(t, PerekladAnnotaciiUk, i)
    \/ MatchAtCI(t, PerevodAnnotaciiUk, i) \/ MatchAtCI(t, PerekladAnnotacii, i)

\* 'перевод' or 'переклад' lies within the 20 characters before index i
C3_TranslationBefore(t, i) ==
    \E j \in (i - 20)..(i - 1) :
        /\ j >= 1
        /\ \/ (j + 6 <= i - 1 /\ MatchAtCI(t, perevod, j))
           \/ (j + 7 <= i - 1 /\ MatchAtCI(t, pereklad, j))

C3_Unexcluded(t) ==
    {i \in 1..Len(t) : C3_StartMarkerAt(t, i) /\ ~C3_TranslationBefore(t, i)}

\* C3: every start-marker occurrence with 'перевод'/'переклад' within the 20
\* characters before it is skipped: the fragment starts after the first occurrence
\* that is not excluded, and when there is none the result is the whole
\* whitespace-normalized text, trimmed.
C3_ExcludedStartSkipped ==
    ex_pc # "input" =>
        LET t == NormalizeSpaces(doc_text)
        IN  /\ C3_Unexcluded(t) = {} =>
                    ru.start_idx = 0 /\ ru.fragment = Strip(t)
            /\ C3_Unexcluded(t) # {} =>
                    /\ ru.start_idx = SetMin(C3_Unexcluded(t))
                    /\ ru.start_pos >= ru.start_idx + 9
                    /\ \E e \in (ru.start_pos - 1)..Len(t) :
                           ru.fragment = Strip(Slice(t, ru.start_pos, e))

\* C3 witness: an excluded start marker was passed over and the fragment was cut
\* after a later one
C3_Witness ==
    /\ ex_pc = "done"
    /\ ru.start_idx > 0
    /\ \E i \in 1..(ru.start_idx - 1) :
           C3_StartMarkerAt(ru.t, i) /\ C3_TranslationBefore(ru.t, i)
    /\ ru.fragment # <<>>
    /\ ru.fragment # Strip(ru.t)

\* C4: the fragment ends at the first primary end marker after the start marker's
\* end; only when there is none, at the first secondary end marker; when there is
\* neither it runs to the end of the text; the result is trimmed.  The text
\* '...Аннотация: Lorem ipsum dolor. Анкор: ...' yields 'Lorem ipsum dolor.'.
C4_EndMarkerOrder ==
    (ex_pc # "input" /\ ru.start_idx > 0) =>
        LET t == ru.t
            P == {i \in ru.start_pos..Len(t) : PrimaryEndAt(t, i)}
            S == {i \in ru.start_pos..Len(t) : SecondaryMarkerAt(t, i)}
            last == IF P # {} THEN SetMin(P) - 1
                    ELSE IF S # {} THEN SetMin(S) - 1
                    ELSE Len(t)
        IN  /\ ru.fragment = Strip(Slice(t, ru.start_pos, last))
            /\ doc_text = ScenarioText => ru.fragment = LoremIpsumDolor

\* C4 witness: a secondary end marker stands between the start marker and the
\* primary end marker, and the fragment runs on to the primary one
C4_Witness ==
    /\ ex_pc = "done"
    /\ ru.start_idx > 0
    /\ ru.end_idx > 0
    /\ PrimaryEndAt(ru.t, ru.end_idx)
    /\ \E i \in ru.start_pos..(ru.end_idx - 1) : SecondaryMarkerAt(ru.t, i)
    /\ Contains(ru.fragment, PerekladAnnotaciiUk)

\* C5: extract_ukrainian_annotation_fragment returns the empty string whenever the
\* text has no secondary start marker, never the whole text; with a start marker
\* the fragment runs from its end to the first primary end marker after it, or to
\* the end of the text (emphasis characters removed, trimmed).
C5_UaEmptyWhenNoMarker ==
    ex_pc = "done" =>
        LET t == NormalizeSpaces(doc_text)
            S == {i \in 1..Len(t) : SecondaryMarkerAt(t, i)}
            P == {i \in ua.start_pos..Len(t) : PrimaryEndAt(t, i)}
        IN  /\ S = {} => ua.fragment = <<>>
            /\ S # {} =>
                    /\ ua.start_idx = SetMin(S)
                    /\ ua.start_pos >= ua.start_idx + 17
                    /\ ua.fragment =
                           StripEmphasis(Slice(t, ua.start_pos,
                                               IF P = {} THEN Len(t) ELSE SetMin(P) - 1))

\* C5 witness: a non-empty text without a secondary start marker gave the empty
\* fragment, while the primary extractor fell back to the whole text
C5_Witness ==
    /\ ex_pc = "done"
    /\ \A i \in 1..Len(ua.t) : ~SecondaryMarkerAt(ua.t, i)
    /\ Strip(ua.t) # <<>>
    /\ ru.fragment = Strip(ua.t)
    /\ ua.fragment = <<>>

(***************************************************************************)
(* compare_texts                                                           *)
(***************************************************************************)
MinWordsThreshold == 10
PreviewLen == 200
ChunkSizeMin == 100
ChunkSizeStep == 50
ChunkSizeMax == 500

Ellipsis == <<DOT, DOT, DOT>>

\* str.split(): the first and the last index of every word of s, in order
Split(s) ==
    LET idx == [i \in 1..Len(s) |-> i]
        isWord(i) == s[i] \notin WhiteSpace
    IN  [starts |-> SelectSeq(idx, LAMBDA i : isWord(i) /\ (i = 1 \/ ~isWord(i - 1))),
         ends |-> SelectSeq(idx, LAMBDA i : isWord(i) /\ (i = Len(s) \/ ~isWord(i + 1)))]

\* ' '.join(s.split()[a:b]) for the split w of s (a, b as in the Python slice)
JoinWords(s, w, a, b) ==
    LET n == Len(w.starts)
        last == IF b < n THEN b ELSE n
    IN  IF a + 1 > last THEN <<>>
        ELSE CollapseSpace(SubSeq(s, w.starts[a + 1], w.ends[last]))

\* step taken as the whole chunk size, without the 20% overlap
StepNoOverlap(cs) == IF cs > 1 THEN cs ELSE 1

\* step = max(1, int(chunk_size * 0.8))
Step(cs) == IF (cs * 8) \div 10 > 1 THEN (cs * 8) \div 10 ELSE 1

\* a window is kept when len(chunk_words) > min_words_threshold
KeptStrict(len) == len > MinWordsThreshold

\* a window is kept when len(chunk_words) >= min_words_threshold
Kept(len) == len >= MinWordsThreshold

\* len(words[i:i + chunk_size])
WindowLen(n, cs, i) == IF n - i < cs THEN n - i ELSE cs

\* the loop over range(0, len(words), step): the kept windows, in order
Chunks(doc_text_clean, cs) ==
    LET doc_text_lower == Lower(doc_text_clean)
        words == Split(doc_text_lower)
        orig_words_clean == Split(doc_text_clean)
        n == Len(words.starts)
        step == Step(cs)
        offsets == [k \in 1..((n + step - 1) \div step) |-> (k - 1) * step]
        kept == SelectSeq(offsets, LAMBDA i : Kept(WindowLen(n, cs, i)))
    IN  [k \in 1..Len(kept) |->
            LET i == kept[k]
                normalized == JoinWords(doc_text_lower, words, i, i + cs)
                orig == IF i < Len(orig_words_clean.starts)
                        THEN JoinWords(doc_text_clean, orig_words_clean, i, i + cs)
                        ELSE <<>>
            IN  [i |-> i,
                 original |-> IF orig # <<>> THEN orig ELSE normalized,
                 normalized |-> normalized]]

RECURSIVE SeqSum(_)
SeqSum(q) == IF q = <<>> THEN 0 ELSE Head(q) + SeqSum(Tail(q))

SeqMinAsMax(q) == SetMax({q[k] : k \in 1..Len(q)})

SeqMin(q) == SetMin({q[k] : k \in 1..Len(q)})

\* chunk['original'][:200] + '...' if len(chunk['original']) > 200 else chunk['original']
Preview(original) ==
    IF Len(original) > PreviewLen THEN SubSeq(original, 1, PreviewLen) \o Ellipsis
    ELSE original

\* a window is reported missing when score <= threshold
IsMissingInclusive(score, th) == score <= th

\* a window is reported missing when score < threshold
IsMissing(score, th) == score < th

\* the entries of missing_fragments, in window order
MissingFragments(ch, sc, th) ==
    LET idx == SelectSeq([k \in 1..Len(ch) |-> k], LAMBDA k : IsMissing(sc[k], th))
    IN  [m \in 1..Len(idx) |->
            [text |-> Preview(ch[idx[m]].original), score |-> sc[idx[m]]]]

\* avg_score = sum(scores) / len(scores), as the fraction num / den
Avg(sc) == [num |-> SeqSum(sc), den |-> Len(sc)]

\* return 0.0, 0.0, []
ZeroResult == [min_score |-> 0, avg_score |-> [num |-> 0, den |-> 1],
               missing_fragments |-> <<>>]

\* min_score, avg_score, missing_fragments of the scored windows
Aggregate(ch, sc, th) ==
    [min_score |-> SeqMin(sc), avg_score |-> Avg(sc),
     missing_fragments |-> MissingFragments(ch, sc, th)]

(***************************************************************************)
(* SpecCompare: compare_texts on fragments of 0..MaxWords words            *)
(***************************************************************************)
MaxWords == 165
MaxChunkSteps == 1

\* the values the chunk size slider offers, from its minimum up
ChunkSizes ==
    {cs \in {ChunkSizeMin + ChunkSizeStep * k : k \in 0..MaxChunkSteps} : cs <= ChunkSizeMax}
Thresholds == {0, 75, 100}
\* fuzz.token_set_ratio is a library function: any of these scores may come back
ScoreValues == {0, 74, 75, 100}

\* word k of a generated fragment: one upper-case letter, so that neighbouring
\* words and the windows that start at different offsets differ
WordChar(k) == 65 + (k % 26)

\* n one-letter words separated by single spaces
PlainFragment(n) ==
    [p \in 1..(IF n = 0 THEN 0 ELSE 2 * n - 1) |->
        IF p % 2 = 0 THEN SP ELSE WordChar((p - 1) \div 2)]

\* the same words in a marked-up fragment: '<i>', the words separated by a
\* non-breaking space and a newline, and a trailing footnote marker ' [1]'
MarkedUpFragment(n) ==
    <<LT, 105, GT>>
    \o [p \in 1..(3 * n) |->
           IF p % 3 = 2 THEN NBSP
           ELSE IF p % 3 = 0 THEN NL
           ELSE WordChar((p - 1) \div 3)]
    \o <<SP, LBRACKET, 49, RBRACKET>>

Fragments == {PlainFragment(n) : n \in 0..MaxWords} \cup {MarkedUpFragment(n) : n \in 0..MaxWords}
\* '' and 'a b'
PageTexts == {<<>>, <<97, SP, 98>>}

InitCompare ==
    /\ cmp_pc = "input"
    /\ doc_fragment \in Fragments
    /\ page_text \in PageTexts
    /\ threshold \in Thresholds
    /\ chunk_size \in ChunkSizes
    /\ n_words = -1
    /\ chunks = <<>>
    /\ scores = <<>>
    /\ result = <<>>
    /\ UrlIdle
    /\ CleanIdle
    /\ ExIdle
    /\ RefIdle
    /\ RestIdle

\* not doc_fragment, without the test of page_text
EmptyInputFragmentOnly(fragment, page) == fragment = <<>>

\* not doc_fragment or not page_text
EmptyInput(fragment, page) == fragment = <<>> \/ page = <<>>

\* compare_texts: the guards, the cleaning, the windows, one score for every
\* kept window and the returned triple
Compare ==
    /\ cmp_pc = "input"
    /\ IF EmptyInput(doc_fragment, page_text)
       THEN /\ n_words' = -1
            /\ chunks' = <<>>
            /\ scores' = <<>>
            /\ result' = ZeroResult
       ELSE /\ chunks' = Chunks(clean_text_for_comparison(doc_fragment), chunk_size)
            /\ n_words' = Len(Split(Lower(clean_text_for_comparison(doc_fragment))).starts)
            /\ IF chunks' = <<>>
               THEN /\ scores' = <<>>
                    /\ result' = ZeroResult
               ELSE \E sc \in [1..Len(chunks') -> ScoreValues] :
                        /\ scores' = sc
                        /\ result' = Aggregate(chunks', sc, threshold)
    /\ cmp_pc' = "done"
    /\ UNCHANGED <<doc_fragment, page_text, threshold, chunk_size, urlVars,
                   cleanVars, exVars, refVars, restVars>>

NextCompare == Compare

SpecCompare == InitCompare /\ [][NextCompare]_vars

(***************************************************************************)
(* Claims about compare_texts                                              *)
(***************************************************************************)
\* the call went past the guards and split the cleaned fragment into words
CmpChunked == cmp_pc = "done" /\ n_words >= 0

\* max(1, floor(chunk_size * 0.8))
StatedStep == IF (4 * chunk_size) \div 5 >= 1 THEN (4 * chunk_size) \div 5 ELSE 1

\* the offsets j of the windows: those with j * step inside the word sequence
WindowIndexes == {j \in 0..n_words : j * StatedStep < n_words}

\* the number of words of window j: up to chunk_size words from j * step on
WindowWords(j) ==
    IF n_words - j * StatedStep < chunk_size THEN n_words - j * StatedStep
    ELSE chunk_size

\* the number of words of a text of single-spaced words
WordCount(s) == IF s = <<>> THEN 0 ELSE Cardinality({p \in 1..Len(s) : s[p] = SP}) + 1

\* C6: the i-th window starts at word offset i * step, step = max(1,
\* floor(chunk_size * 0.8)), and has at most chunk_size words; a window is kept
\* if and only if it has at least 10 words, so the kept windows are the first
\* windows of the sequence and the last kept window has at least 10 words.
C6_Windows ==
    CmpChunked =>
        /\ \A j \in WindowIndexes : (j < Len(chunks)) <=> (WindowWords(j) >= 10)
        /\ Len(chunks) <= Cardinality(WindowIndexes)
        /\ \A k \in 1..Len(chunks) :
               /\ chunks[k].i = (k - 1) * StatedStep
               /\ WordCount(chunks[k].normalized) = WindowWords(k - 1)
               /\ WordCount(chunks[k].normalized) <= chunk_size
               /\ WordCount(chunks[k].normalized) >= 10
               /\ chunks[k].normalized[1] = LowerChar(WordChar((k - 1) * StatedStep))
               /\ chunks[k].original[1] = WordChar((k - 1) * StatedStep)

\* two overlapping windows are kept and a third window of five words is dropped
C6_Witness ==
    /\ CmpChunked
    /\ chunk_size = 100
    /\ n_words = 165
    /\ Len(chunks) = 2
    /\ chunks[2].i = 80
    /\ WordCount(chunks[2].normalized) = 85
    /\ WindowIndexes = {0, 1, 2}
    /\ WindowWords(2) = 5

\* the word indexes of kept window k
KeptWords(k) == chunks[k].i .. (chunks[k].i + WordCount(chunks[k].normalized) - 1)

\* the word indexes that lie in at least one kept window
Covered == UNION {KeptWords(k) : k \in 1..Len(chunks)}

\* word w lies in window j
InWindow(w, j) == j * StatedStep <= w /\ w < j * StatedStep + WindowWords(j)

\* window j is a dropped trailing window of fewer than 10 words
DroppedTail(j) ==
    /\ j >= Len(chunks)
    /\ j * StatedStep + WindowWords(j) = n_words
    /\ WindowWords(j) < 10

\* C7: every word index of the cleaned fragment lies in at least one kept
\* window, except the words that lie only in a dropped trailing window of fewer
\* than 10 words.
C7_Coverage ==
    CmpChunked =>
        \A w \in (0..(n_words - 1)) \ Covered :
            /\ \E j \in WindowIndexes : InWindow(w, j)
            /\ \A j \in WindowIndexes : InWindow(w, j) => DroppedTail(j)

\* the last words lie in a dropped window of five words and in the kept window
\* before it
C7_Witness ==
    /\ CmpChunked
    /\ n_words = 165
    /\ chunk_size = 100
    /\ Len(chunks) = 2
    /\ DroppedTail(2)
    /\ InWindow(164, 2)
    /\ 164 \in KeptWords(2)
    /\ 164 \notin KeptWords(1)
    /\ Covered = 0..164

\* the windows were scored
CmpScored == cmp_pc = "done" /\ scores # <<>>

RECURSIVE SumTo(_, _)
SumTo(sc, k) == IF k = 0 THEN 0 ELSE sc[k] + SumTo(sc, k - 1)

\* the kept windows whose score is strictly below the threshold
Below == {k \in 1..Len(scores) : scores[k] < threshold}

\* the m-th window, in window order, of those below the threshold
NthBelow(m) == CHOOSE k \in Below : Cardinality({j \in Below : j <= k}) = m

\* the text shown for a window: 200 characters and '...' when it is longer
Shown(t) == IF Len(t) > 200 THEN [p \in 1..203 |-> IF p <= 200 THEN t[p] ELSE DOT] ELSE t

\* C8: min_score is the minimum and avg_score the arithmetic mean of the kept
\* windows' scores; missing_fragments holds exactly the kept windows whose
\* score is strictly below threshold, in window order, each with its score and
\* its original-case text cut to 200 characters plus '...' when longer.
C8_Aggregation ==
    CmpScored =>
        /\ Len(scores) = Len(chunks)
        /\ \E k \in 1..Len(scores) : result.min_score = scores[k]
        /\ \A k \in 1..Len(scores) : result.min_score <= scores[k]
        /\ result.avg_score.den > 0
        /\ result.avg_score.num * Len(scores)
               = SumTo(scores, Len(scores)) * result.avg_score.den
        /\ Len(result.missing_fragments) = Cardinality(Below)
        /\ \A m \in 1..Len(result.missing_fragments) :
               /\ result.missing_fragments[m].score = scores[NthBelow(m)]
               /\ result.missing_fragments[m].text = Shown(chunks[NthBelow(m)].original)
        /\ \A k \in 1..Len(chunks) :
               /\ Lower(chunks[k].original) = chunks[k].normalized
               /\ chunks[k].original # chunks[k].normalized

\* both windows are below the threshold and are reported in window order, not
\* in score order; the first text is cut, the second is not
C8_Witness ==
    /\ CmpScored
    /\ chunk_size = 150
    /\ threshold = 75
    /\ scores = <<74, 0>>
    /\ result.min_score = 0
    /\ result.avg_score = [num |-> 74, den |-> 2]
    /\ Len(result.missing_fragments) = 2
    /\ result.missing_fragments[1].score = 74
    /\ Len(result.missing_fragments[1].text) = 203
    /\ result.missing_fragments[2].score = 0
    /\ Len(result.missing_fragments[2].text) < 200

\* C9: when the fragment is empty or the page text is empty, compare_texts
\* returns (0.0, 0.0, []) and computes no score, whatever the threshold and
\* the chunk size.
C9_ZeroResult ==
    (cmp_pc = "done" /\ (Len(doc_fragment) = 0 \/ Len(page_text) = 0)) =>
        /\ result.min_score = 0
        /\ result.avg_score.num = 0
        /\ result.missing_fragments = <<>>
        /\ scores = <<>>

\* a fragment of two windows against an empty page
C9_Witness ==
    /\ cmp_pc = "done"
    /\ Len(page_text) = 0
    /\ doc_fragment = PlainFragment(MaxWords)
    /\ result = [min_score |-> 0, avg_score |-> [num |-> 0, den |-> 1],
                 missing_fragments |-> <<>>]
    /\ scores = <<>>

(***************************************************************************)
(* extract_references_section                                              *)
(*                                                                         *)
(* The parsed page is a container element (the body, or a div inside it)   *)
(* and the elements in it; an element has a name, an optional href and     *)
(* children that are strings or <a> elements.  An element is addressed by  *)
(* <<k, j>>: element k of the container (j = 0) or its child j; <<0, 0>>   *)
(* is the container itself.                                                *)
(***************************************************************************)
MaxElements == 20
MinSectionContent == 3
HeaderMaxLen == 100
WwwLen == 4

SLASH == 47       \* '/'

Headings == {"h1", "h2", "h3", "h4", "h5", "h6"}
HeaderTags == {"p", "div", "section", "span"}
SiblingTags == {"p", "div", "li", "ul", "ol", "span", "a", "section"}
ContainerTags == {"div", "section", "article", "main"}
FallbackTags == {"p", "div", "li", "span", "a", "ul", "ol"}

\* 'Список использованной литературы'
SpisokIspolzovannoj ==
    <<1057, 1087, 1080, 1089, 1086, 1082, 32, 1080, 1089, 1087, 1086, 1083,
      1100, 1079, 1086, 1074, 1072, 1085, 1085, 1086, 1081, 32, 1083, 1080,
      1090, 1077, 1088, 1072, 1090, 1091, 1088, 1099>>

\* 'Список використаної літератури'
SpisokVykorystanoi ==
    <<1057, 1087, 1080, 1089, 1086, 1082, 32, 1074, 1080, 1082, 1086, 1088,
      1080, 1089, 1090, 1072, 1085, 1086, 1111, 32, 1083, 1110, 1090, 1077,
      1088, 1072, 1090, 1091, 1088, 1080>>

\* 'Список литературы'
SpisokLiteratury ==
    <<1057, 1087, 1080, 1089, 1086, 1082, 32, 1083, 1080, 1090, 1077, 1088,
      1072, 1090, 1091, 1088, 1099>>

\* 'Список літератури'
SpisokLiteraturyUk ==
    <<1057, 1087, 1080, 1089, 1086, 1082, 32, 1083, 1110, 1090, 1077, 1088,
      1072, 1090, 1091, 1088, 1080>>

\* 'Литература'
Literatura == <<1051, 1080, 1090, 1077, 1088, 1072, 1090, 1091, 1088, 1072>>

\* 'Література'
LiteraturaUk == <<1051, 1110, 1090, 1077, 1088, 1072, 1090, 1091, 1088, 1072>>

\* 'References'
References == <<82, 101, 102, 101, 114, 101, 110, 99, 101, 115>>

\* 'Bibliography'
Bibliography == <<66, 105, 98, 108, 105, 111, 103, 114, 97, 112, 104, 121>>

section_patterns ==
    <<SpisokIspolzovannoj, SpisokVykorystanoi, SpisokLiteratury, SpisokLiteraturyUk,
      Literatura, LiteraturaUk, References, Bibliography>>

\* 'http://'
HttpPrefix == <<104, 116, 116, 112, 58, 47, 47>>

\* 'https://'
HttpsPrefix == <<104, 116, 116, 112, 115, 58, 47, 47>>

\* 'http'
HttpWord == <<104, 116, 116, 112>>

\* 'javascript:'
JavascriptPrefix == <<106, 97, 118, 97, 115, 99, 114, 105, 112, 116, 58>>

\* 'www.'
WwwPrefix == <<119, 119, 119, 46>>

\* str.endswith
EndsWith(s, suf) == Len(suf) <= Len(s) /\ MatchAt(s, suf, Len(s) - Len(suf) + 1)

\* str.split(c): the pieces of s between the occurrences of c
SplitBy(s, c) ==
    LET cut == SelectSeq([i \in 1..Len(s) |-> i], LAMBDA i : s[i] = c)
    IN  [k \in 1..(Len(cut) + 1) |->
            Slice(s, IF k = 1 THEN 1 ELSE cut[k - 1] + 1,
                     IF k = Len(cut) + 1 THEN Len(s) ELSE cut[k] - 1)]

\* c.join(parts)
RECURSIVE JoinBy(_, _)
JoinBy(parts, c) ==
    IF parts = <<>> THEN <<>>
    ELSE IF Len(parts) = 1 THEN parts[1]
    ELSE parts[1] \o <<c>> \o JoinBy(Tail(parts), c)

\* str.strip(chars)
StripChars(s, C) ==
    LET N == {i \in 1..Len(s) : s[i] \notin C}
    IN  IF N = {} THEN <<>> ELSE SubSeq(s, SetMin(N), SetMax(N))

\* a <= b in the order of sorted() on str: by code point, a prefix first
LexLeq(a, b) ==
    LET D == {i \in 1..(IF Len(a) < Len(b) THEN Len(a) ELSE Len(b)) : a[i] # b[i]}
    IN  IF D = {} THEN Len(a) <= Len(b) ELSE a[SetMin(D)] < b[SetMin(D)]

\* the value of an expression that is computed once and used in several places
Only(S) == CHOOSE x \in S : TRUE

\* sorted(list(S))
RECURSIVE Sorted(_)
Sorted(S) ==
    IF S = {} THEN <<>>
    ELSE LET m == CHOOSE x \in S : \A y \in S : LexLeq(x, y)
         IN  <<m>> \o Sorted(S \ {m})

(***************************************************************************)
(* urllib.parse.urljoin                                                    *)
(***************************************************************************)
\* the loop over segments: '..' removes the last resolved segment, '.' is skipped
RECURSIVE ResolveDots(_, _)
ResolveDots(segments, resolved_path) ==
    IF segments = <<>> THEN resolved_path
    ELSE IF Head(segments) = <<".", ".">>
         THEN ResolveDots(Tail(segments),
                          Slice(resolved_path, 1, Len(resolved_path) - 1))
    ELSE IF Head(segments) = <<".">> THEN ResolveDots(Tail(segments), resolved_path)
    ELSE ResolveDots(Tail(segments), Append(resolved_path, Head(segments)))

\* the path of the joined URL
JoinPath(bpath, path) ==
    LET split == SplitBy(bpath, "/")
        base_parts == IF split[Len(split)] # <<>> THEN Slice(split, 1, Len(split) - 1)
                      ELSE split
        both == base_parts \o SplitBy(path, "/")
        segments ==
            IF StartsWith(path, <<"/">>) THEN SplitBy(path, "/")
            ELSE [k \in 1..Len(SelectSeq([i \in 1..Len(both) |-> i],
                        LAMBDA i : i = 1 \/ i = Len(both) \/ both[i] # <<>>)) |->
                     both[SelectSeq([i \in 1..Len(both) |-> i],
                        LAMBDA i : i = 1 \/ i = Len(both) \/ both[i] # <<>>)[k]]]
        resolved == ResolveDots(segments, <<>>)
        closed == IF segments[Len(segments)] \in {<<".">>, <<".", ".">>}
                  THEN Append(resolved, <<>>) ELSE resolved
        joined == JoinBy(closed, "/")
    IN  IF joined = <<>> THEN <<"/">> ELSE joined

\* urljoin(base, url) for a base with the scheme http or https
urljoin(base, url) ==
    IF base = <<>> THEN url
    ELSE IF url = <<>> THEN base
    ELSE Only({Only({
             IF u.scheme # b.scheme \/ u.scheme \notin UsesNetloc THEN url
             ELSE urlunparse(
                      IF u.netloc # <<>> THEN u
                      ELSE IF u.path = <<>> /\ u.params = <<>>
                      THEN [u EXCEPT !.netloc = b.netloc, !.path = b.path,
                                     !.params = b.params,
                                     !.query = IF u.query = <<>> THEN b.query
                                               ELSE u.query]
                      ELSE [u EXCEPT !.netloc = b.netloc,
                                     !.path = JoinPath(b.path, u.path)]) :
                 u \in {[p EXCEPT !.scheme = IF p.scheme = <<>> THEN b.scheme
                                              ELSE p.scheme]}}) :
                 b \in {urlparse(base)}, p \in {urlparse(url)}})

(***************************************************************************)
(* The page and its elements                                               *)
(***************************************************************************)
\* a string child of an element
TextNode(t) == [name |-> "#text", has_href |-> FALSE, href |-> <<>>, text |-> t]

\* an <a href=...> child with the text t, and an <a> child without href
Link(href, t) == [name |-> "a", has_href |-> TRUE, href |-> href, text |-> t]
AnchorNoHref(t) == [name |-> "a", has_href |-> FALSE, href |-> <<>>, text |-> t]

\* an element of the container
Element(name, kids) == [name |-> name, has_href |-> FALSE, href |-> <<>>, kids |-> kids]

Container == <<0, 0>>
None == <<>>

\* the element that an address denotes, as the tree that == compares
Elem(dom, id) ==
    IF id[2] = 0 THEN dom.nodes[id[1]]
    ELSE LET kid == dom.nodes[id[1]].kids[id[2]]
         IN  [name |-> kid.name, has_href |-> kid.has_href, href |-> kid.href,
              kids |-> <<TextNode(kid.text)>>]

\* the strings inside an element, in document order
Strings(dom, id) ==
    IF id = Container
    THEN Flatten([k \in 1..Len(dom.nodes) |->
                    [j \in 1..Len(dom.nodes[k].kids) |-> dom.nodes[k].kids[j].text]])
    ELSE [j \in 1..Len(Elem(dom, id).kids) |-> Elem(dom, id).kids[j].text]

\* tag.get_text(strip=True)
GetTextStripped(dom, id) ==
    LET parts == Strings(dom, id)
    IN  Flatten([j \in 1..Len(parts) |-> Strip(parts[j])])

\* elem.get_text(separator='\n')
GetTextLines(dom, id) == JoinBy(Strings(dom, id), NL)

\* the tags below the container, in document order
Descendants(dom) ==
    Flatten([k \in 1..Len(dom.nodes) |->
        IF dom.nodes[k].name = "#text" THEN <<>>
        ELSE <<(<<k, 0>>)>> \o
             SelectSeq([j \in 1..Len(dom.nodes[k].kids) |-> <<k, j>>],
                       LAMBDA id : dom.nodes[k].kids[id[2]].name = "a")])

\* soup.find_all(names): the container, when it is a tag of the page body, and
\* the tags below it
FindAll(dom, names) ==
    SelectSeq((IF dom.container = "body" THEN <<>> ELSE <<Container>>) \o Descendants(dom),
              LAMBDA id : (IF id = Container THEN dom.container ELSE Elem(dom, id).name)
                          \in names)

(***************************************************************************)
(* The section header                                                      *)
(***************************************************************************)
\* re.search(pattern, text_lower, re.IGNORECASE) succeeds for one of the patterns
IsSectionTitle(txt) == Search(Lower(txt), section_patterns, 1) # 0

\* the first element that matches, heading or block, in one pass in document
\* order
FindHeaderOnePass(dom) ==
    LET found == SelectSeq(FindAll(dom, Headings \cup HeaderTags),
            LAMBDA id : /\ GetTextStripped(dom, id) # <<>>
                        /\ IsSectionTitle(GetTextStripped(dom, id))
                        /\ (id = Container \/ Elem(dom, id).name \in Headings
                            \/ Len(GetTextStripped(dom, id)) <= HeaderMaxLen))
    IN  IF found # <<>> THEN found[1] ELSE None

\* the first heading whose text matches; else the first p, div, section or span
\* with a text of at most 100 characters that matches; else None
FindHeader(dom) ==
    LET in_headings == SelectSeq(FindAll(dom, Headings),
            LAMBDA id : /\ GetTextStripped(dom, id) # <<>>
                        /\ IsSectionTitle(GetTextStripped(dom, id)))
        in_blocks == SelectSeq(FindAll(dom, HeaderTags),
            LAMBDA id : /\ GetTextStripped(dom, id) # <<>>
                        /\ Len(GetTextStripped(dom, id)) <= HeaderMaxLen
                        /\ IsSectionTitle(GetTextStripped(dom, id)))
    IN  IF in_headings # <<>> THEN in_headings[1]
        ELSE IF in_blocks # <<>> THEN in_blocks[1]
        ELSE None

(***************************************************************************)
(* The elements after the header                                           *)
(***************************************************************************)
\* the walk over section_header.next_sibling: tags only, up to the next heading,
\* at most max_elements of them
SiblingWalk(dom, header) ==
    IF header = Container THEN <<>>
    ELSE LET k == header[1]
             H == {i \in (k + 1)..Len(dom.nodes) : dom.nodes[i].name \in Headings}
             stop == IF H = {} THEN Len(dom.nodes) + 1 ELSE SetMin(H)
             found == SelectSeq([i \in 1..(stop - 1 - k) |-> <<k + i, 0>>],
                                LAMBDA id : Elem(dom, id).name \in SiblingTags)
         IN  Slice(found, 1, IF Len(found) < MaxElements THEN Len(found) ELSE MaxElements)

\* elem in section_content, with the == of elements
InContent(dom, content, id) == \E n \in 1..Len(content) : Elem(dom, content[n]) = Elem(dom, id)

\* the loop over parent_container.find_all([...]): st holds found_header, count,
\* section_content and whether the loop was left at a heading
RECURSIVE FallbackLoop(_, _, _, _)
FallbackLoop(dom, header, elems, st) ==
    IF elems = <<>> \/ st.stopped THEN st.content
    ELSE LET elem == Head(elems)
             rest == Tail(elems)
         IN  IF Elem(dom, elem) = Elem(dom, header)
             THEN FallbackLoop(dom, header, rest, [st EXCEPT !.found_header = TRUE])
             ELSE IF st.found_header /\ st.count < MaxElements
             THEN IF Elem(dom, elem).name \in Headings
                  THEN FallbackLoop(dom, header, rest, [st EXCEPT !.stopped = TRUE])
                  ELSE IF ~InContent(dom, st.content, elem)
                  THEN FallbackLoop(dom, header, rest,
                           [st EXCEPT !.content = Append(st.content, elem),
                                      !.count = st.count + 1])
                  ELSE FallbackLoop(dom, header, rest, st)
             ELSE FallbackLoop(dom, header, rest, st)

\* section_header.find_parent(['div', 'section', 'article', 'main'])
HasParentContainer(dom, header) == header # Container /\ dom.container \in ContainerTags

\* section_content: the siblings, and the descendants of the parent container
\* when fewer than 3 siblings were found
SectionContent(dom, header) ==
    LET siblings == SiblingWalk(dom, header)
    IN  IF Len(siblings) < MinSectionContent /\ HasParentContainer(dom, header)
        THEN FallbackLoop(dom, header,
                 SelectSeq(Descendants(dom), LAMBDA id : Elem(dom, id).name \in FallbackTags),
                 [found_header |-> FALSE, count |-> 0, content |-> siblings,
                  stopped |-> FALSE])
        ELSE siblings

(***************************************************************************)
(* The links of an element                                                 *)
(***************************************************************************)
\* a character of the class [^\s<>"{}|\\^`\[\]]
UrlChar(c) ==
    c \notin WhiteSpace \cup {LT, GT, 34, 123, 125, 124, 92, CARET, 96, LBRACKET, RBRACKET}

\* a character of the class [^\s<>"{}|\\^`\[\].,;:!?]
UrlLastChar(c) == UrlChar(c) /\ c \notin {DOT, 44, 59, COLON, 33, 63}

Digits == 48..57
Letters == (65..90) \cup (97..122)

\* last index of the run of URL characters that starts at i (i - 1 when there is none)
UrlRunEnd(s, i) ==
    LET N == {k \in i..Len(s) : ~UrlChar(s[k])}
    IN  IF N = {} THEN Len(s) ELSE SetMin(N) - 1

\* full_url_pattern: the last index of its match at i, 0 when it does not match
FullUrlEnd(s, i) ==
    LET p == IF MatchAt(s, HttpsPrefix, i) THEN i + Len(HttpsPrefix)
             ELSE IF MatchAt(s, HttpPrefix, i) THEN i + Len(HttpPrefix)
             ELSE 0
        last == {t \in (p + 1)..UrlRunEnd(s, p) : UrlLastChar(s[t])}
    IN  IF p = 0 \/ last = {} THEN 0 ELSE SetMax(last)

\* domain_pattern: the last index of its match at i, 0 when it does not match
DomainEnd(s, i) ==
    IF i > Len(s) \/ s[i] \notin Letters \cup Digits THEN 0
    ELSE LET label == RunEnd(s, Letters \cup Digits \cup {HYPHEN}, i)
             tld == RunEnd(s, Letters, label + 2)
         IN  IF label + 1 > Len(s) \/ s[label + 1] # DOT \/ tld < label + 3 THEN 0
             ELSE IF tld + 1 <= Len(s) /\ s[tld + 1] = SLASH THEN UrlRunEnd(s, tld + 2)
             ELSE tld

\* re.findall(full_url_pattern, line): leftmost matches that do not overlap
RECURSIVE FindUrls(_, _)
FindUrls(s, from) ==
    LET starts == {i \in from..Len(s) : FullUrlEnd(s, i) > 0}
    IN  IF starts = {} THEN <<>>
        ELSE <<Slice(s, SetMin(starts), FullUrlEnd(s, SetMin(starts)))>>
             \o FindUrls(s, FullUrlEnd(s, SetMin(starts)) + 1)

\* re.findall(domain_pattern, line)
RECURSIVE FindDomains(_, _)
FindDomains(s, from) ==
    LET starts == {i \in from..Len(s) : DomainEnd(s, i) > 0}
    IN  IF starts = {} THEN <<>>
        ELSE <<Slice(s, SetMin(starts), DomainEnd(s, SetMin(starts)))>>
             \o FindDomains(s, DomainEnd(s, SetMin(starts)) + 1)

\* urlparse(url).netloc.lower()
NetlocLower(url) == Lower(FromUrl(urlparse(ToUrl(url)).netloc))

\* domain == page_domain or domain.endswith('.' + page_domain), for a page_domain
IsInternal(domain, page_domain) ==
    /\ page_domain # <<>>
    /\ (domain = page_domain \/ EndsWith(domain, <<DOT>> \o page_domain))

\* the links of the <a href> elements inside elem
HrefLinks(dom, id, url) ==
    LET kids == IF id[2] = 0 THEN dom.nodes[id[1]].kids ELSE <<>>
        links == SelectSeq(kids, LAMBDA kid :
                     /\ kid.name = "a" /\ kid.has_href
                     /\ kid.href # <<>>
                     /\ ~StartsWith(kid.href, <<HASH>>)
                     /\ ~StartsWith(kid.href, JavascriptPrefix))
    IN  [n \in 1..Len(links) |->
            IF StartsWith(links[n].href, HttpPrefix) \/ StartsWith(links[n].href, HttpsPrefix)
            THEN links[n].href
            ELSE FromUrl(urljoin(ToUrl(url), ToUrl(links[n].href)))]

\* the links of the bare domains of a line
DomainLinks(line, page_domain) ==
    LET found_domains == FindDomains(line, 1)
        stripped == [n \in 1..Len(found_domains) |->
                        StripChars(found_domains[n], {SP, SLASH, 59, DOT, 44})]
        kept == SelectSeq(stripped, LAMBDA domain :
                    /\ ~StartsWith(domain, HttpWord)
                    /\ ~IsInternal(NetlocLower(HttpsPrefix \o domain), page_domain))
    IN  [n \in 1..Len(kept) |-> HttpsPrefix \o kept[n]]

\* the links of the text of elem, line by line
TextLinks(dom, id, page_domain) ==
    LET lines == SplitBy(GetTextLines(dom, id), NL)
        stripped == SelectSeq([n \in 1..Len(lines) |-> Strip(lines[n])],
                              LAMBDA line : line # <<>>)
    IN  Flatten([n \in 1..Len(stripped) |->
                    FindUrls(stripped[n], 1) \o DomainLinks(stripped[n], page_domain)])

\* references_links: the links of the elements of section_content, in order
ReferencesLinks(dom, content, url, page_domain) ==
    Flatten([n \in 1..Len(content) |->
                HrefLinks(dom, content[n], url) \o TextLinks(dom, content[n], page_domain)])

(***************************************************************************)
(* The returned list                                                       *)
(***************************************************************************)
\* the normalized link of a link domain: 'https://' and the domain without 'www.'
Normalized(link_domain) ==
    HttpsPrefix \o (IF StartsWith(link_domain, WwwPrefix)
                    THEN Slice(link_domain, WwwLen + 1, Len(link_domain))
                    ELSE link_domain)

\* filtered_domains
FilteredDomains(links, page_domain) ==
    {Normalized(NetlocLower(links[n])) :
        n \in {m \in 1..Len(links) : /\ NetlocLower(links[m]) # <<>>
                                     /\ ~IsInternal(NetlocLower(links[m]), page_domain)}}

\* the locals and the result of extract_references_section(page_url) for the
\* page that the request returns, or for a request that fails
extract_references_section(url, dom, ok) ==
    IF url = <<>> \/ ~ok
    THEN [section_header |-> None, section_content |-> <<>>,
          references_links |-> <<>>, unique_links |-> <<>>]
    ELSE Only({Only({Only({
             [section_header |-> header, section_content |-> content,
              references_links |-> links,
              unique_links |-> Sorted(FilteredDomains(links, page_domain))] :
                 links \in {ReferencesLinks(dom, content, url, page_domain)}}) :
                 content \in {IF header = None THEN <<>> ELSE SectionContent(dom, header)}}) :
                 page_domain \in {NetlocLower(url)}, header \in {FindHeader(dom)}})

(***************************************************************************)
(* SpecRefs: extract_references_section on pages of 0..MaxNodes elements   *)
(***************************************************************************)
MaxNodes == 2

\* 'https://n.ua/p'
PagePlain ==
    <<104, 116, 116, 112, 115, 58, 47, 47, 110, 46, 117, 97, 47, 112>>

\* 'https://www.n.ua/ua/p'
PageWww ==
    <<104, 116, 116, 112, 115, 58, 47, 47, 119, 119, 119, 46, 110, 46, 117,
      97, 47, 117, 97, 47, 112>>

\* 'https://external.com/x'
HrefExternal ==
    <<104, 116, 116, 112, 115, 58, 47, 47, 101, 120, 116, 101, 114, 110, 97,
      108, 46, 99, 111, 109, 47, 120>>

\* 'http://www.external.com'
HrefExternalWww ==
    <<104, 116, 116, 112, 58, 47, 47, 119, 119, 119, 46, 101, 120, 116, 101,
      114, 110, 97, 108, 46, 99, 111, 109>>

\* 'https://n.ua/y'
HrefOwn == <<104, 116, 116, 112, 115, 58, 47, 47, 110, 46, 117, 97, 47, 121>>

\* 'https://WWW.n.ua/'
HrefOwnWww ==
    <<104, 116, 116, 112, 115, 58, 47, 47, 87, 87, 87, 46, 110, 46, 117, 97,
      47>>

\* 'https://m.n.ua/a?b'
HrefOwnSub ==
    <<104, 116, 116, 112, 115, 58, 47, 47, 109, 46, 110, 46, 117, 97, 47, 97,
      63, 98>>

\* 'https://n.ua:443/z'
HrefOwnPort ==
    <<104, 116, 116, 112, 115, 58, 47, 47, 110, 46, 117, 97, 58, 52, 52, 51,
      47, 122>>

\* '/local'
HrefRooted == <<47, 108, 111, 99, 97, 108>>

\* '#top'
HrefAnchor == <<35, 116, 111, 112>>

\* 'javascript:void(0)'
HrefScript ==
    <<106, 97, 118, 97, 115, 99, 114, 105, 112, 116, 58, 118, 111, 105, 100,
      40, 48, 41>>

\* '../page.html'
HrefRelative == <<46, 46, 47, 112, 97, 103, 101, 46, 104, 116, 109, 108>>

\* '//external.com/x'
HrefSchemeless ==
    <<47, 47, 101, 120, 116, 101, 114, 110, 97, 108, 46, 99, 111, 109, 47,
      120>>

\* 'mailto:a@external.com'
HrefMail ==
    <<109, 97, 105, 108, 116, 111, 58, 97, 64, 101, 120, 116, 101, 114, 110,
      97, 108, 46, 99, 111, 109>>

\* 'ref'
TextRef == <<114, 101, 102>>

\* 'Book / external.com; n.ua, WWW.N.UA/a m.n.ua.'
TextBare ==
    <<66, 111, 111, 107, 32, 47, 32, 101, 120, 116, 101, 114, 110, 97, 108,
      46, 99, 111, 109, 59, 32, 110, 46, 117, 97, 44, 32, 87, 87, 87, 46, 78,
      46, 85, 65, 47, 97, 32, 109, 46, 110, 46, 117, 97, 46>>

\* 'see https://m.n.ua/a. and http://www.external.com/b, https'
TextUrls ==
    <<115, 101, 101, 32, 104, 116, 116, 112, 115, 58, 47, 47, 109, 46, 110,
      46, 117, 97, 47, 97, 46, 32, 97, 110, 100, 32, 104, 116, 116, 112, 58,
      47, 47, 119, 119, 119, 46, 101, 120, 116, 101, 114, 110, 97, 108, 46,
      99, 111, 109, 47, 98, 44, 32, 104, 116, 116, 112, 115>>

\* 'https://www./x'
HrefWwwOnly ==
    <<104, 116, 116, 112, 115, 58, 47, 47, 119, 119, 119, 46, 47, 120>>

\* 'loose text'
TextLoose == <<108, 111, 111, 115, 101, 32, 116, 101, 120, 116>>

\* 'Comments'
TextComments == <<67, 111, 109, 109, 101, 110, 116, 115>>

HeadingReferences == Element("h2", <<TextNode(References)>>)
HeadingSpisok == Element("h2", <<TextNode(SpisokLiteratury)>>)
HeadingComments == Element("h3", <<TextNode(TextComments)>>)
ParagraphTitle == Element("p", <<TextNode(Bibliography)>>)
ExternalRef == Element("p", <<Link(HrefExternal, TextRef)>>)
OwnRefs ==
    Element("p", <<Link(HrefOwn, TextRef), Link(HrefOwnWww, TextRef),
                   Link(HrefOwnSub, TextRef)>>)
OwnPortRef == Element("li", <<Link(HrefOwnPort, TextRef)>>)
OtherRefs ==
    Element("ul", <<Link(HrefRooted, TextRef), Link(HrefAnchor, TextRef),
                    Link(HrefScript, TextRef), Link(HrefRelative, TextRef),
                    Link(HrefSchemeless, TextRef), Link(HrefMail, TextRef),
                    Link(<<>>, TextRef), AnchorNoHref(TextRef),
                    Link(HrefExternalWww, TextRef), Link(HrefWwwOnly, TextRef)>>)
BareDomains == Element("p", <<TextNode(TextBare)>>)
UrlsInText == Element("div", <<TextNode(TextUrls)>>)
\* a string between the elements
LooseText == Element("#text", <<TextNode(TextLoose)>>)
Table == Element("table", <<TextNode(TextRef)>>)
\* a text of more than 100 characters
LongText == Element("span", <<TextNode([i \in 1..(HeaderMaxLen + 1) |-> 120])>>)

NodeKinds ==
    {HeadingReferences, HeadingSpisok, HeadingComments, ParagraphTitle, ExternalRef,
     OwnRefs, OwnPortRef, OtherRefs, BareDomains, UrlsInText, LooseText, Table, LongText}

\* a reference list under a paragraph title, inside a div that also holds the
\* article
ScenarioSection ==
    <<LongText, ParagraphTitle, ExternalRef, OwnPortRef, HeadingComments, BareDomains>>

\* a reference list of more than three elements under a heading
ScenarioList ==
    <<HeadingSpisok, ExternalRef, OwnRefs, LooseText, BareDomains, UrlsInText,
      HeadingComments, OtherRefs>>

\* the i-th entry of a long reference list: a link to 'https://external.com/x<i>'
NumberedRef(i) == Element("li", <<Link(HrefExternal \o <<96 + i>>, TextRef)>>)

LongListLen == 21

\* more entries under a heading than the sibling walk takes
ScenarioLongList ==
    <<HeadingReferences>> \o [i \in 1..LongListLen |-> NumberedRef(i)]

\* inside a div that also holds the article: a paragraph title with one entry
\* before the next heading and a long list after it
ScenarioLongTail ==
    <<LongText, ParagraphTitle, NumberedRef(1), HeadingComments>>
    \o [i \in 1..LongListLen |-> NumberedRef(i + 1)]

Pages ==
    {[container |-> c, nodes |-> n] :
        c \in {"body", "div"},
        n \in SeqsUpTo(NodeKinds, MaxNodes)
              \cup {ScenarioSection, ScenarioList, ScenarioLongList, ScenarioLongTail}}

PageUrls == {<<>>, PagePlain, PageWww}

NoRefs ==
    [section_header |-> None, section_content |-> <<>>, references_links |-> <<>>,
     unique_links |-> <<>>]

InitRefs ==
    /\ ref_pc = "input"
    /\ page_url \in PageUrls
    /\ soup \in Pages
    /\ fetched = FALSE
    /\ refs = NoRefs
    /\ UrlIdle
    /\ CleanIdle
    /\ ExIdle
    /\ CmpIdle
    /\ RestIdle

\* extract_references_section(page_url): the request succeeds or raises
ExtractReferences ==
    /\ ref_pc = "input"
    /\ \E ok \in (IF page_url = <<>> THEN {FALSE} ELSE BOOLEAN) :
           /\ fetched' = ok
           /\ refs' = extract_references_section(page_url, soup, ok)
    /\ ref_pc' = "done"
    /\ UNCHANGED <<page_url, soup, urlVars, cleanVars, exVars, cmpVars, restVars>>

NextRefs == ExtractReferences

SpecRefs == InitRefs /\ [][NextRefs]_vars

(***************************************************************************)
(* Claims about extract_references_section                                 *)
(***************************************************************************)
\* the host of a URL: its netloc without user information and port, lower-cased
HostOf(url) ==
    LET netloc == NetlocLower(url)
        host_port == Slice(netloc, RFindChar(netloc, {64}) + 1, Len(netloc))
        colon == FindChar(host_port, {COLON}, 1)
    IN  IF colon = 0 THEN host_port ELSE Slice(host_port, 1, colon - 1)

\* C10: the list returned by extract_references_section never contains the
\* page's own domain or a subdomain of it: no returned entry's host equals the
\* page host or ends with '.' + page host.
C10_NoOwnDomain ==
    ref_pc = "done" =>
        \A n \in 1..Len(refs.unique_links) :
            /\ HostOf(refs.unique_links[n]) # HostOf(page_url)
            /\ ~EndsWith(HostOf(refs.unique_links[n]), <<DOT>> \o HostOf(page_url))

\* the returned list went through the link filter
RefsDone == ref_pc = "done" /\ fetched

\* the entry is 'https://' and a host, and nothing else
IsHostRoot(entry) == HostOf(entry) # <<>> /\ entry = HttpsPrefix \o HostOf(entry)

\* C11: every returned entry has the form 'https://' + host with no path, query
\* or fragment; the returned list has no duplicates and is in ascending
\* lexicographic order; a page with the heading 'Список литературы' followed by
\* a paragraph linking to https://external.com/x gives ['https://external.com'].
C11_HostRootsSorted ==
    RefsDone =>
        /\ \A n \in 1..Len(refs.unique_links) :
               /\ IsHostRoot(refs.unique_links[n])
               /\ urlparse(ToUrl(refs.unique_links[n])).path = <<>>
               /\ urlparse(ToUrl(refs.unique_links[n])).query = <<>>
               /\ urlparse(ToUrl(refs.unique_links[n])).fragment = <<>>
        /\ \A m, n \in 1..Len(refs.unique_links) :
               m < n => /\ refs.unique_links[m] # refs.unique_links[n]
                        /\ LexLeq(refs.unique_links[m], refs.unique_links[n])
        /\ soup.nodes = <<HeadingSpisok, ExternalRef>>
               => refs.unique_links = <<HttpsPrefix \o SubSeq(HrefExternal, 9, 20)>>

\* the text of element k of the page, stripped piece by piece
NodeText(k) ==
    Flatten([j \in 1..Len(soup.nodes[k].kids) |-> Strip(soup.nodes[k].kids[j].text)])

\* the text holds one of the section titles, in any case
HasTitle(txt) ==
    \E n \in 1..Len(section_patterns) : Contains(Lower(txt), Lower(section_patterns[n]))

\* the h1-h6 elements of the page whose text holds a section title
TitleHeadings ==
    {k \in 1..Len(soup.nodes) :
        soup.nodes[k].name \in {"h1", "h2", "h3", "h4", "h5", "h6"} /\ HasTitle(NodeText(k))}

\* C12: the section header is the first h1-h6 element in document order whose
\* text matches a section title; a p, div, section or span (text of at most 100
\* characters) is chosen only when no heading matches, even when it precedes
\* the headings; when no header is located the result is the empty list.
C12_HeaderChoice ==
    RefsDone =>
        /\ TitleHeadings # {} => refs.section_header = <<SetMin(TitleHeadings), 0>>
        /\ (TitleHeadings = {} /\ refs.section_header # None) =>
               LET name == IF refs.section_header = Container THEN soup.container
                           ELSE soup.nodes[refs.section_header[1]].name
                   txt == IF refs.section_header = Container
                          THEN Flatten([k \in 1..Len(soup.nodes) |-> NodeText(k)])
                          ELSE NodeText(refs.section_header[1])
               IN  /\ name \in {"p", "div", "section", "span"}
                   /\ Len(txt) <= 100
                   /\ HasTitle(txt)
        /\ refs.section_header = None => refs.unique_links = <<>>

\* a paragraph title precedes a heading title, and the heading is the header
C12_Witness ==
    /\ RefsDone
    /\ soup.nodes = <<ParagraphTitle, HeadingReferences>>
    /\ refs.section_header = <<2, 0>>

(***************************************************************************)
(* Claims about the two URL functions                                      *)
(***************************************************************************)
\* the path holds the 'ua' locale segment: '/ua' followed by '/' or by the end
HasUaSegment(path) == \E i \in 1..Len(path) : UaSegmentAt(path, i)

\* C13: generate_ukrainian_url returns the URL unchanged when its path already
\* contains the 'ua' locale segment (a path that is exactly '/ua' included),
\* and otherwise returns the URL with '/ua' inserted immediately after the host,
\* so that the path becomes '/ua/...', with scheme, host, query and fragment
\* preserved.
C13_UaInserted ==
    (/\ url_pc \in {"ua", "done"}
     /\ urlparse(ru_url).scheme = Https
     /\ urlparse(ru_url).netloc # <<>>)
    => IF HasUaSegment(urlparse(ru_url).path)
       THEN ua_url = ru_url
       ELSE /\ urlparse(ua_url).scheme = urlparse(ru_url).scheme
            /\ urlparse(ua_url).netloc = urlparse(ru_url).netloc
            /\ urlparse(ua_url).query = urlparse(ru_url).query
            /\ urlparse(ua_url).fragment = urlparse(ru_url).fragment
            /\ urlparse(ua_url).path =
                   <<"/", "u", "a">>
                   \o (IF StartsWith(urlparse(ru_url).path, <<"/">>) THEN <<>> ELSE <<"/">>)
                   \o urlparse(ru_url).path

\* a string with neither a scheme nor a host (the blank string included): no
\* ':' ends a scheme and no leading '//' opens a host
Malformed(u) == ~Contains(u, <<":">>) /\ ~StartsWith(u, <<"/", "/">>)

\* C14: generate_ukrainian_url and generate_russian_url return the empty string
\* for every malformed URL input (blank, or a string without scheme and host).
C14_MalformedGivesEmpty ==
    /\ (url_pc \in {"ua", "done"} /\ Malformed(ru_url)) => ua_url = <<>>
    /\ (url_pc = "done" /\ Malformed(ua_url)) => back_url = <<>>

\* C21: the two page URLs derived for a record with a valid http(s) base URL are
\* distinct locale variants: the path of page_url_ua contains '/ua/', the path
\* of page_url_ru does not start with '/ua/', and the two URLs differ.
C21_LocaleVariantsDistinct ==
    url_pc = "pair" =>
        /\ Contains(urlparse(ua_url).path, <<"/", "u", "a", "/">>)
        /\ ~StartsWith(urlparse(ru_variant).path, <<"/", "u", "a", "/">>)
        /\ ru_variant # ua_url

(***************************************************************************)
(* check_editors_on_page                                                   *)
(***************************************************************************)
\* 'Щербаченко Юлія'
EditorShcherbachenko ==
    <<1065, 1077, 1088, 1073, 1072, 1095, 1077, 1085, 1082, 1086, 32, 1070, 1083,
      1110, 1103>>
\* 'Севрюков Олександр Вікторович'
EditorSevriukov ==
    <<1057, 1077, 1074, 1088, 1102, 1082, 1086, 1074, 32, 1054, 1083, 1077, 1082,
      1089, 1072, 1085, 1076, 1088, 32, 1042, 1110, 1082, 1090, 1086, 1088, 1086,
      1074, 1080, 1095>>
editors == <<EditorShcherbachenko, EditorSevriukov>>

\* page_text with the non-breaking spaces left in place
NormalizedTextKeepNbsp(txt) == txt

\* normalized_text = page_text.replace('\xa0', ' ')
NormalizedText(txt) == ReplaceChar(txt, NBSP, SP)

\* re.search(re.escape(editor), normalized_text, re.IGNORECASE)
EditorSearch(editor, normalized_text) ==
    \E i \in 1..Len(normalized_text) : MatchAtCI(normalized_text, editor, i)

\* the loop over editors[k..]: found_editors.append(editor) for each one found
RECURSIVE FoundEditors(_, _)
FoundEditors(normalized_text, k) ==
    IF k > Len(editors) THEN <<>>
    ELSE (IF EditorSearch(editors[k], normalized_text) THEN <<editors[k]>> ELSE <<>>)
         \o FoundEditors(normalized_text, k + 1)

\* (len(found_editors) > 0, found_editors)
check_editors_on_page(txt) ==
    IF txt = <<>> THEN [has_editor |-> FALSE, found_editors |-> <<>>]
    ELSE LET found == FoundEditors(NormalizedText(txt), 1)
         IN  [has_editor |-> Len(found) > 0, found_editors |-> found]

(***************************************************************************)
(* SpecEditors: check_editors_on_page on one page text                     *)
(***************************************************************************)
MaxEdTokens == 3

\* the pieces page texts are built from
EdTokens ==
    { EditorShcherbachenko,
      EditorSevriukov,
      \* 'ЩЕРБАЧЕНКО ЮЛІЯ'
      <<1065, 1045, 1056, 1041, 1040, 1063, 1045, 1053, 1050, 1054, 32, 1070, 1051,
        1030, 1071>>,
      \* 'Щербаченко' NBSP 'Юлія'
      <<1065, 1077, 1088, 1073, 1072, 1095, 1077, 1085, 1082, 1086, NBSP, 1070, 1083,
        1110, 1103>>,
      \* 'Щербаченко' TAB 'Юлія'
      <<1065, 1077, 1088, 1073, 1072, 1095, 1077, 1085, 1082, 1086, 9, 1070, 1083,
        1110, 1103>>,
      \* 'севрюков олександр'
      <<1089, 1077, 1074, 1088, 1102, 1082, 1086, 1074, 32, 1086, 1083, 1077, 1082,
        1089, 1072, 1085, 1076, 1088>>,
      \* ' вікторович'
      <<32, 1074, 1110, 1082, 1090, 1086, 1088, 1086, 1074, 1080, 1095>>,
      <<SP>>,
      <<LetterA>> }

EdTexts == {Flatten(toks) : toks \in SeqsUpTo(EdTokens, MaxEdTokens)}

InitEditors ==
    /\ ed_pc = "input"
    /\ ed_text \in EdTexts
    /\ has_editor = FALSE
    /\ found_editors = <<>>
    /\ UrlIdle
    /\ CleanIdle
    /\ ExIdle
    /\ CmpIdle
    /\ RefIdle
    /\ RecIdle
    /\ BatIdle
    /\ LoadIdle

CheckEditors ==
    /\ ed_pc = "input"
    /\ has_editor' = check_editors_on_page(ed_text).has_editor
    /\ found_editors' = check_editors_on_page(ed_text).found_editors
    /\ ed_pc' = "done"
    /\ UNCHANGED <<ed_text, urlVars, cleanVars, exVars, cmpVars, refVars, recVars,
                   batVars, loadVars>>

NextEditors == CheckEditors

SpecEditors == InitEditors /\ [][NextEditors]_vars

\* the roster name occurs in the text as a substring once case is ignored and
\* non-breaking spaces count as spaces
OccursIn(name, txt) == Contains(Lower(ReplaceChar(txt, NBSP, SP)), Lower(name))

\* the first index at which the name occurs in that sense
FirstOccurrence(name, txt) ==
    SetMin({i \in 1..Len(txt) : MatchAt(Lower(ReplaceChar(txt, NBSP, SP)), Lower(name), i)})

\* C17: check_editors_on_page returns every roster name that occurs in the page
\* text as a case-insensitive substring (non-breaking spaces treated as spaces),
\* in roster declaration order whatever their order in the text; the boolean is
\* true exactly when that list is non-empty; empty page text gives (False, []).
C17_EditorsInRosterOrder ==
    ed_pc = "done" =>
        /\ found_editors = SelectSeq(editors, LAMBDA name : OccursIn(name, ed_text))
        /\ has_editor = (found_editors # <<>>)
        /\ ed_text = <<>> => (~has_editor /\ found_editors = <<>>)

\* C17 witness: both names occur, the second roster name first and the first one
\* written with a non-breaking space, and both are returned in roster order
C17_Witness ==
    /\ ed_pc = "done"
    /\ has_editor
    /\ found_editors = editors
    /\ Contains(ed_text, <<NBSP>>)
    /\ ~Contains(ed_text, EditorShcherbachenko)
    /\ FirstOccurrence(EditorSevriukov, ed_text) < FirstOccurrence(EditorShcherbachenko, ed_text)

(***************************************************************************)
(* Claims about the candidate elements of the reference section            *)
(***************************************************************************)
\* the sibling walk found fewer than 3 elements and the header has a parent
\* container, so the loop over the container's descendants ran
FallbackRan ==
    /\ RefsDone
    /\ refs.section_header # None
    /\ Len(SiblingWalk(soup, refs.section_header)) < 3
    /\ HasParentContainer(soup, refs.section_header)

\* C18: the number of candidate elements collected for the section never exceeds
\* the cap of 20, also when the sibling walk collected fewer than 3 elements and
\* the walk over the parent container ran.
C18_ContentCapped == RefsDone => Len(refs.section_content) <= 20

\* the index of the first heading after the header, or one past the last node
NextHeadingAfter(h) ==
    LET H == {k \in (h + 1)..Len(soup.nodes) : soup.nodes[k].name \in Headings}
    IN  IF H = {} THEN Len(soup.nodes) + 1 ELSE SetMin(H)

\* C19: the walk over the parent container collects the container's descendants
\* after the header and stops at the next h1-h6 heading: no element after the
\* following heading is collected, and for a header that is itself an h1-h6
\* heading the descendants after it (and before the next heading) are collected,
\* themselves or inside a collected element.
C19_FallbackStopsAtHeading ==
    FallbackRan =>
        LET h == refs.section_header[1]
            stop == NextHeadingAfter(h)
            after == {id \in {Descendants(soup)[n] : n \in 1..Len(Descendants(soup))} :
                         /\ id[1] > h
                         /\ id[1] < stop
                         /\ Elem(soup, id).name \in FallbackTags}
        IN  /\ \A n \in 1..Len(refs.section_content) : refs.section_content[n][1] < stop
            /\ (soup.nodes[h].name \in Headings /\ Cardinality(after) <= 20) =>
                   \A id \in after :
                       \/ InContent(soup, refs.section_content, id)
                       \/ InContent(soup, refs.section_content, <<id[1], 0>>)

(***************************************************************************)
(* The batch loop: one pass, for one row of the worklist                   *)
(***************************************************************************)
EntryPreviewLen == 2000

\* a character of the class [-\w]
DocIdChar(c) ==
    \/ c = HYPHEN \/ c = USCORE
    \/ c \in 48..57 \/ c \in 65..90 \/ c \in 97..122 \/ c \in 1024..1279

\* extract_doc_id finds an id: re.search(r'(?:/d/|/document/d/|[?&]id=)([-\w]+)', url)
HasDocId(url) ==
    \E i \in 1..Len(url) :
        \E m \in {<<SLASH, 100, SLASH>>, <<63, 105, 100, 61>>, <<38, 105, 100, 61>>} :
            /\ MatchAt(url, m, i)
            /\ i + Len(m) <= Len(url)
            /\ DocIdChar(url[i + Len(m)])

\* get_doc_text(doc_url): '' without a document id; otherwise the text the
\* document service returns ('' when the request fails), whitespace collapsed
\* and trimmed
get_doc_text(doc_url, text_served) ==
    IF doc_url = <<>> \/ ~HasDocId(doc_url) THEN <<>>
    ELSE Strip(CollapseSpace(text_served))

\* get_page_text(page_url): '' without a URL; otherwise the lower-cased text of
\* the page, '' when the request fails
get_page_text(url, text_served, ok) ==
    IF url = <<>> \/ ~ok THEN <<>> ELSE Strip(CollapseSpace(Lower(text_served)))

\* base_page_url and (startswith('http://') or startswith('https://'))
ValidPageUrl(url) ==
    url # <<>> /\ (StartsWith(url, HttpPrefix) \/ StartsWith(url, HttpsPrefix))

\* 'Перевод'
Perevod == <<1055, 1077, 1088, 1077, 1074, 1086, 1076>>

\* re.search(r'Аннотация\s*:\s*(.*?)(?=\s*(?:Анкор|Перевод|$))', doc_text,
\* re.IGNORECASE | re.DOTALL): idx is the start of the match (0: no match), first
\* and last delimit group(1) up to the marker or the end of the text
AnnotationMatch(d) ==
    LET Colon(i) == RunEnd(d, WhiteSpace, i + Len(Annotaciya)) + 1
        starts == {i \in 1..Len(d) :
                      /\ MatchAtCI(d, Annotaciya, i)
                      /\ Colon(i) <= Len(d)
                      /\ d[Colon(i)] = COLON}
        idx == SetMin(starts)
        first == RunEnd(d, WhiteSpace, Colon(idx) + 1) + 1
        stops == {q \in first..Len(d) : MatchAtCI(d, Ankor, q) \/ MatchAtCI(d, Perevod, q)}
    IN  IF starts = {} THEN [idx |-> 0, first |-> 0, last |-> 0]
        ELSE [idx |-> idx, first |-> first,
              last |-> IF stops = {} THEN Len(d) ELSE SetMin(stops) - 1]

\* doc_fragment_ru and len(doc_fragment_ru) > len(doc_text) * 0.8
TooLong(fragment, d) == fragment # <<>> /\ 10 * Len(fragment) > 8 * Len(d)

\* doc_fragment_ru as compare_texts receives it: the extracted fragment, or
\* group(1).strip() of the second search when the fragment is longer than 80% of
\* the text; start_idx is where the marker it follows begins (0: none)
PrimaryFragment(d) ==
    Only({IF TooLong(ex.fragment, d) /\ m.idx > 0
          THEN [fragment |-> Strip(Slice(d, m.first, m.last)), start_idx |-> m.idx,
                searched_again |-> TRUE]
          ELSE [fragment |-> ex.fragment, start_idx |-> ex.start_idx,
                searched_again |-> FALSE] :
            ex \in {extract_annotation_fragment(d)}, m \in {AnnotationMatch(d)}})

\* compare_texts with the score the library gives to every window (the documents
\* of the batch specifications give one window at most)
compare_texts(fragment, page, th, cs, score) ==
    IF EmptyInput(fragment, page) THEN ZeroResult
    ELSE Only({IF ch = <<>> THEN ZeroResult
               ELSE Aggregate(ch, [k \in 1..Len(ch) |-> score], th) :
                 ch \in {Chunks(clean_text_for_comparison(fragment), cs)}})

\* round(x, 1) of the fraction num / den, in tenths (a tie goes to the even
\* tenth; the float of a tie is not exact, and one window gives no tie)
Round1(x) ==
    LET q == (10 * x.num) \div x.den
        r == (10 * x.num) % x.den
    IN  IF 2 * r < x.den THEN q
        ELSE IF 2 * r > x.den THEN q + 1
        ELSE IF q % 2 = 0 THEN q ELSE q + 1

\* text[:2000]
EntryPreview(txt) ==
    Slice(txt, 1, IF Len(txt) < EntryPreviewLen THEN Len(txt) ELSE EntryPreviewLen)

\* the dict appended for a row with a missing or invalid URL ('Питання UKR',
\* 'Статус': 'Помилка', 'Деталі', ...)
ErrorEntry(r) ==
    [question_ukr |-> r.question, status |-> "error", details |-> r.base_page_url,
     page_url_ru |-> r.base_page_url, page_url_ua |-> r.base_page_url,
     doc_url |-> r.doc_url, score_ru |-> 0, score_ua |-> 0,
     has_editor_ru |-> FALSE, has_editor_ua |-> FALSE,
     found_editors_ru |-> <<>>, found_editors_ua |-> <<>>,
     references_links_ru |-> <<>>, references_links_ua |-> <<>>]

NoCalls ==
    [get_doc_text |-> FALSE, get_page_text |-> FALSE, extract |-> FALSE,
     compare_ru |-> FALSE, compare_ua |-> FALSE,
     doc_text |-> <<>>, doc_fragment_ru |-> <<>>, start_idx_ru |-> 0,
     searched_again |-> FALSE, doc_fragment_ua |-> <<>>, page_text_ua |-> <<>>]

\* results.append({...}) of a checked row (lines 833-858) and what was done
\* for it, from the values the loop body computed
RowEntry(idx, r, d, fragment_ru, fragment_ua, page_url_ru, page_url_ua,
         page_text_ru, page_text_ua, refs_by_locale, editors_ru, editors_ua,
         cmp_ru, compared_ua, cmp_ua) ==
    [appended |->
        [index |-> idx,
         min_similarity_ru |-> Round1([num |-> cmp_ru.min_score, den |-> 1]),
         avg_similarity_ru |-> Round1(cmp_ru.avg_score),
         missing_count_ru |-> Len(cmp_ru.missing_fragments),
         missing_fragments_ru |-> cmp_ru.missing_fragments,
         page_url_ru |-> page_url_ru,
         references_links_ru |-> refs_by_locale["ru"].unique_links,
         has_editor_ru |-> editors_ru.has_editor,
         found_editors_ru |-> editors_ru.found_editors,
         min_similarity_ua |-> Round1([num |-> cmp_ua.min_score, den |-> 1]),
         avg_similarity_ua |-> Round1(cmp_ua.avg_score),
         missing_count_ua |-> Len(cmp_ua.missing_fragments),
         missing_fragments_ua |-> cmp_ua.missing_fragments,
         page_url_ua |-> page_url_ua,
         references_links_ua |-> IF page_url_ua # <<>> THEN refs_by_locale["ua"].unique_links
                                 ELSE <<>>,
         has_editor_ua |-> editors_ua.has_editor,
         found_editors_ua |-> editors_ua.found_editors,
         doc_preview |-> EntryPreview(d),
         page_preview_ru |-> EntryPreview(page_text_ru),
         page_preview_ua |-> EntryPreview(page_text_ua),
         doc_url |-> r.doc_url],
     calls |->
        [get_doc_text |-> TRUE, get_page_text |-> TRUE, extract |-> TRUE,
         compare_ru |-> TRUE, compare_ua |-> compared_ua,
         doc_text |-> d, doc_fragment_ru |-> fragment_ru.fragment,
         start_idx_ru |-> fragment_ru.start_idx,
         searched_again |-> fragment_ru.searched_again,
         doc_fragment_ua |-> fragment_ua, page_text_ua |-> page_text_ua]]

\* the loop body from the texts on (lines 805-858): the references, the editors
\* and the comparison of each locale, each computed once; the secondary locale's
\* only with a URL, a page text and a fragment. refs_by_locale holds what
\* extract_references_section gives for the page of each locale ('' gives no links)
RowChecks(idx, r, sv, st, sc, d, fragment_ru, fragment_ua, page_url_ru, page_url_ua,
          page_text_ru, page_text_ua) ==
    Only({RowEntry(idx, r, d, fragment_ru, fragment_ua, page_url_ru, page_url_ua,
                   page_text_ru, page_text_ua, refs_by_locale, editors_ru, editors_ua,
                   cmp_ru, fragment_ua # <<>> /\ page_text_ua # <<>>, cmp_ua) :
            refs_by_locale \in
                {[loc \in {"ru", "ua"} |->
                     extract_references_section(
                         IF loc = "ru" THEN page_url_ru ELSE page_url_ua, sv.soup,
                         IF loc = "ru" THEN sv.ok_ru ELSE sv.ok_ua)]},
            editors_ru \in {check_editors_on_page(page_text_ru)},
            editors_ua \in
                {IF page_text_ua # <<>> THEN check_editors_on_page(page_text_ua)
                 ELSE [has_editor |-> FALSE, found_editors |-> <<>>]},
            cmp_ru \in
                {compare_texts(fragment_ru.fragment, page_text_ru,
                               st.threshold, st.chunk_size, sc.ru)},
            cmp_ua \in
                {IF fragment_ua # <<>> /\ page_text_ua # <<>>
                 THEN compare_texts(fragment_ua, page_text_ua,
                                    st.threshold, st.chunk_size, sc.ua)
                 ELSE ZeroResult}})

\* the loop body from the URLs on (lines 790-819): the texts fetched and the
\* fragments extracted
RowTexts(idx, r, sv, st, sc, page_url_ru, page_url_ua, d) ==
    Only({RowChecks(idx, r, sv, st, sc, d, fragment_ru, fragment_ua,
                    page_url_ru, page_url_ua, page_text_ru, page_text_ua) :
            fragment_ru \in {PrimaryFragment(d)},
            fragment_ua \in {extract_ukrainian_annotation_fragment(d).fragment},
            page_text_ru \in {get_page_text(page_url_ru, sv.page_text, sv.ok_ru)},
            page_text_ua \in
                {IF page_url_ua # <<>>
                 THEN get_page_text(page_url_ua, sv.page_text, sv.ok_ua)
                 ELSE <<>>}})

\* the body of 'for idx, row in df.iterrows()' for the row r at index idx: sv is
\* what the services return, st the sidebar, sc the library's scores
CheckRow(idx, r, sv, st, sc) ==
    IF ~ValidPageUrl(r.base_page_url)
    THEN [appended |-> ErrorEntry(r), calls |-> NoCalls]
    ELSE Only({RowTexts(idx, r, sv, st, sc, page_url_ru, page_url_ua, d) :
                 page_url_ru \in {FromUrl(generate_russian_url(ToUrl(r.base_page_url)))},
                 page_url_ua \in {FromUrl(generate_ukrainian_url(ToUrl(r.base_page_url)))},
                 d \in {get_doc_text(r.doc_url, sv.doc_text)}})

\* the message under the secondary-locale entry of a result: the missing
\* fragments, 'all fragments found' or 'check not performed'
UaFragmentsReport(e) ==
    IF e.missing_fragments_ua # <<>> THEN "missing"
    ELSE IF e.min_similarity_ua > 0 THEN "all_found"
    ELSE "not_performed"

(***************************************************************************)
(* SpecRecord: one pass of the batch loop                                  *)
(***************************************************************************)
MaxRecTokens == 2

\* 'Аннотация: a b c d e f g h i j Перевод аннотации: k l m n o p q r s t Анкор: x'
DocCompared ==
    <<1040, 1085, 1085, 1086, 1090, 1072, 1094, 1080, 1103, 58, 32, 97, 32, 98, 32,
      99, 32, 100, 32, 101, 32, 102, 32, 103, 32, 104, 32, 105, 32, 106, 32, 1055,
      1077, 1088, 1077, 1074, 1086, 1076, 32, 1072, 1085, 1085, 1086, 1090, 1072,
      1094, 1080, 1080, 58, 32, 107, 32, 108, 32, 109, 32, 110, 32, 111, 32, 112, 32,
      113, 32, 114, 32, 115, 32, 116, 32, 1040, 1085, 1082, 1086, 1088, 58, 32, 120>>
\* 'Аннотация: a b c d e f g h i j Анкор: x Перевод аннотации: k l'
DocShortUa ==
    <<1040, 1085, 1085, 1086, 1090, 1072, 1094, 1080, 1103, 58, 32, 97, 32, 98, 32,
      99, 32, 100, 32, 101, 32, 102, 32, 103, 32, 104, 32, 105, 32, 106, 32, 1040,
      1085, 1082, 1086, 1088, 58, 32, 120, 32, 1055, 1077, 1088, 1077, 1074, 1086,
      1076, 32, 1072, 1085, 1085, 1086, 1090, 1072, 1094, 1080, 1080, 58, 32, 107,
      32, 108>>
\* 'Перевод Аннотация: k l m Анкор: x'
DocExcludedOnly ==
    <<1055, 1077, 1088, 1077, 1074, 1086, 1076, 32, 1040, 1085, 1085, 1086, 1090,
      1072, 1094, 1080, 1103, 58, 32, 107, 32, 108, 32, 109, 32, 1040, 1085, 1082,
      1086, 1088, 58, 32, 120>>
\* 'https://docs.google.com/document/d/a-1/edit'
DocUrlValid ==
    <<104, 116, 116, 112, 115, 58, 47, 47, 100, 111, 99, 115, 46, 103, 111, 111, 103,
      108, 101, 46, 99, 111, 109, 47, 100, 111, 99, 117, 109, 101, 110, 116, 47, 100,
      47, 97, 45, 49, 47, 101, 100, 105, 116>>
\* 'https://docs.google.com/'
DocUrlNoId ==
    <<104, 116, 116, 112, 115, 58, 47, 47, 100, 111, 99, 115, 46, 103, 111, 111, 103,
      108, 101, 46, 99, 111, 109, 47>>
\* 'Щербаченко Юлія a b'
PageTextFound == EditorShcherbachenko \o <<SP, 97, SP, 98>>
\* 'n.ua/p'
PageNoScheme == <<110, 46, 117, 97, 47, 112>>

\* the pieces the texts of the document service are built from
RecTokens ==
    {Annotaciya, Perevod, PerekladAnnotaciiUk, Ankor, <<COLON>>,
     <<105, 112, 115, 117, 109, 32, 100, 111, 108, 111, 114, 46>>}  \* 'ipsum dolor.'

\* the texts the document service returns
RecDocs ==
    {Flatten(toks) : toks \in SeqsUpTo(RecTokens, MaxRecTokens)}
    \cup {ScenarioText, ScenarioSkipped, ScenarioBoth, DocCompared, DocShortUa,
          DocExcludedOnly}

DocUrls == {<<>>, DocUrlNoId, DocUrlValid}
BasePageUrls == {<<>>, PageNoScheme, PagePlain, PageWww}

\* a row and what the services return for it; nothing is requested for a row
\* without a valid page URL, and no document for a row without a document id
Served(r) ==
    IF ~ValidPageUrl(r.base_page_url)
    THEN {[doc_text |-> <<>>, page_text |-> <<>>, soup |-> <<>>,
           ok_ru |-> FALSE, ok_ua |-> FALSE]}
    ELSE {[doc_text |-> d, page_text |-> PageTextFound,
           soup |-> [container |-> "body", nodes |-> <<HeadingSpisok, ExternalRef>>],
           ok_ru |-> a, ok_ua |-> b] :
             d \in (IF r.doc_url = DocUrlValid THEN RecDocs ELSE {<<>>}),
             a \in BOOLEAN, b \in BOOLEAN}

ChunkSizeDefault == 300
Settings == [threshold : Thresholds, chunk_size : {ChunkSizeDefault}]

\* the scores the library gives in a pass: no similarity, or a full match
RecScores == {0, 100}

InitRecord ==
    /\ rec_pc = "input"
    /\ row \in [question : {1}, doc_url : DocUrls, base_page_url : BasePageUrls]
    /\ served \in Served(row)
    /\ settings \in Settings
    /\ calls = NoCalls
    /\ appended = <<>>
    /\ UrlIdle
    /\ CleanIdle
    /\ ExIdle
    /\ CmpIdle
    /\ RefIdle
    /\ EdIdle
    /\ BatIdle
    /\ LoadIdle

\* one pass of the loop, with the scores the library returns
CheckRecord ==
    /\ rec_pc = "input"
    /\ \E sc \in [ru : RecScores, ua : RecScores] :
           \E out \in {CheckRow(0, row, served, settings, sc)} :
               /\ appended' = out.appended
               /\ calls' = out.calls
    /\ rec_pc' = "done"
    /\ UNCHANGED <<row, served, settings, urlVars, cleanVars, exVars, cmpVars, refVars,
                   edVars, batVars, loadVars>>

NextRecord == CheckRecord

SpecRecord == InitRecord /\ [][NextRecord]_vars

(***************************************************************************)
(* Claims about one pass of the batch loop                                 *)
(***************************************************************************)
\* C20: in the per-record pipeline the primary-locale fragment passed to
\* compare_texts never starts at an 'Аннотация' marker that is preceded within 20
\* characters by 'перевод'/'переклад', also when the fragment exceeded 80% of the
\* document text and the second, single-pattern search replaced it.
C20_PrimaryNotAfterExcludedMarker ==
    (rec_pc = "done" /\ calls.compare_ru /\ calls.start_idx_ru > 0) =>
        /\ C3_StartMarkerAt(calls.doc_text, calls.start_idx_ru)
        /\ ~C3_TranslationBefore(calls.doc_text, calls.start_idx_ru)

\* C16: for the secondary locale the reported result of a record whose comparison
\* was skipped (no 'Перевод аннотации' fragment or no page text: scores 0, no
\* missing fragments, 'check not performed') is distinguishable from that of a
\* record that was compared and failed, for every threshold and fragment length.
C16_SkippedDistinguishable ==
    (/\ rec_pc = "done"
     /\ calls.compare_ua
     /\ appended.min_similarity_ua < 10 * settings.threshold)
    => /\ UaFragmentsReport(appended) # "not_performed"
       /\ <<appended.min_similarity_ua, appended.avg_similarity_ua,
            appended.missing_count_ua>> # <<0, 0, 0>>

(***************************************************************************)
(* The page: loading the worklist, the check run and the results display   *)
(***************************************************************************)
ThresholdDefault == 75
WarningBand == 15

\* st.session_state.data is None
NoData == [loaded |-> FALSE, rows |-> <<>>]
\* 'results' not in st.session_state
NoResults == [present |-> FALSE, entries |-> <<>>]

\* results_map = {r['index']: r for r in results} raises KeyError for a dict
\* without 'index' (the dict of a skipped row has none)
DisplayRaises(entries) ==
    entries = <<>> \/ \E k \in 1..Len(entries) : "index" \notin DOMAIN entries[k]

\* results_map.get(idx, {}): the last dict whose 'index' is idx
ResultsMapGet(entries, idx) ==
    LET K == {k \in 1..Len(entries) : entries[k].index = idx}
    IN  IF K = {} THEN [found |-> FALSE, result |-> <<>>]
        ELSE [found |-> TRUE, result |-> entries[SetMax(K)]]

\* the icon of a row: green from the threshold up, yellow down to 15 below it, red
\* otherwise (and for a row without scores, where every comparison is false)
StatusIcon(scored, min_sim, th) ==
    IF scored /\ min_sim >= 10 * th THEN "green"
    ELSE IF scored /\ min_sim >= 10 * (th - WarningBand) THEN "yellow"
    ELSE "red"

\* row i of display_df: the worklist row with the score columns of results_df,
\* assigned by position (no scores when results is shorter than the worklist),
\* and the dict results_map holds for its index
DisplayRow(rows, entries, th, i) ==
    LET scored == i <= Len(entries)
        e == IF scored THEN entries[i] ELSE <<>>
    IN  [idx |-> i - 1,
         question |-> rows[i].question,
         scored |-> scored,
         min_ru |-> IF scored THEN e.min_similarity_ru ELSE 0,
         avg_ru |-> IF scored THEN e.avg_similarity_ru ELSE 0,
         count_ru |-> IF scored THEN e.missing_count_ru ELSE 0,
         min_ua |-> IF scored THEN e.min_similarity_ua ELSE 0,
         avg_ua |-> IF scored THEN e.avg_similarity_ua ELSE 0,
         count_ua |-> IF scored THEN e.missing_count_ua ELSE 0,
         icon_ru |-> StatusIcon(scored, IF scored THEN e.min_similarity_ru ELSE 0, th),
         icon_ua |-> StatusIcon(scored, IF scored THEN e.min_similarity_ua ELSE 0, th),
         result |-> ResultsMapGet(entries, i - 1)]

\* display_df[display_df['Мін. схожість (%)'] < threshold]
IsProblemRow(r, th) ==
    r.scored /\ (IF r.min_ru < r.min_ua THEN r.min_ru ELSE r.min_ua) < 10 * th

\* what the script shows below the button
Display(d, res, sb) ==
    IF ~d.loaded \/ d.rows = <<>> THEN [kind |-> "no_data", rows |-> <<>>]
    ELSE IF ~res.present THEN [kind |-> "no_results", rows |-> <<>>]
    ELSE IF DisplayRaises(res.entries) THEN [kind |-> "exception", rows |-> <<>>]
    ELSE LET all == [i \in 1..Len(d.rows) |->
                        DisplayRow(d.rows, res.entries, sb.threshold, i)]
         IN  [kind |-> "table",
              rows |-> IF sb.show_problems_only
                       THEN SelectSeq(all, LAMBDA r : IsProblemRow(r, sb.threshold))
                       ELSE all]

\* the loop over df.iterrows(): the dicts appended and, per row, what was done
RECURSIVE Loop(_, _, _, _)
Loop(rows, i, env, sb) ==
    IF i > Len(rows) THEN [entries |-> <<>>, trace |-> <<>>]
    ELSE Only({[entries |-> <<out.appended>> \o rest.entries,
                trace |-> <<[row |-> rows[i], calls |-> out.calls]>> \o rest.trace] :
                 out \in {CheckRow(i - 1, rows[i],
                              [doc_text |-> env.doc_text, page_text |-> PageTextFound,
                               soup |-> [container |-> "body",
                                         nodes |-> <<HeadingSpisok, ExternalRef>>],
                               ok_ru |-> env.ok, ok_ua |-> env.ok],
                              [threshold |-> sb.threshold, chunk_size |-> sb.chunk_size],
                              [ru |-> env.ru, ua |-> env.ua])},
                 rest \in {Loop(rows, i + 1, env, sb)}})

(***************************************************************************)
(* SpecBatch: script runs of the page                                      *)
(***************************************************************************)
MaxRows == 2

\* the rows of the sheet: a complete row, a row without a document link, a row
\* without a page URL and a row whose page URL has no scheme
BatRows ==
    {[question |-> 1, doc_url |-> DocUrlValid, base_page_url |-> PagePlain],
     [question |-> 2, doc_url |-> <<>>, base_page_url |-> PageWww],
     [question |-> 3, doc_url |-> DocUrlValid, base_page_url |-> <<>>],
     [question |-> 4, doc_url |-> DocUrlValid, base_page_url |-> PageNoScheme]}

Worklists == SeqsUpTo(BatRows, MaxRows)

\* load_data_from_sheets(): None when the sheet cannot be read
Loads == {NoData} \cup {[loaded |-> TRUE, rows |-> wl] : wl \in Worklists}

\* the worklist the script works on: loaded when st.session_state.data is None
Loaded(d) == IF d.loaded THEN {d} ELSE Loads

Sidebars ==
    [threshold : {ThresholdDefault}, chunk_size : {ChunkSizeDefault},
     show_problems_only : BOOLEAN]

\* what the services return during one check run: the pages are served or not,
\* and the library finds the fragments on them or not
BatEnvs ==
    {[doc_text |-> DocCompared, ok |-> o, ru |-> v, ua |-> v] :
        o \in BOOLEAN, v \in RecScores}

InitBatch ==
    /\ data = NoData
    /\ results = NoResults
    /\ display = [kind |-> "no_data", rows |-> <<>>]
    /\ sidebar = [threshold |-> ThresholdDefault, chunk_size |-> ChunkSizeDefault,
                  show_problems_only |-> FALSE]
    /\ trace = <<>>
    /\ UrlIdle
    /\ CleanIdle
    /\ ExIdle
    /\ CmpIdle
    /\ RefIdle
    /\ EdIdle
    /\ RecIdle
    /\ LoadIdle

\* a script run without a button pressed: the page is opened, or a widget of the
\* sidebar is changed
Rerun ==
    /\ \E sb \in Sidebars :
           \E d \in Loaded(data) :
               /\ sidebar' = sb
               /\ data' = d
               /\ display' = Display(d, results, sb)
    /\ UNCHANGED <<results, trace, urlVars, cleanVars, exVars, cmpVars, refVars, edVars,
                   recVars, loadVars>>

\* the script run of the check button: the loop over the worklist, the results
\* stored in the session, the results display
RunCheck ==
    /\ data.loaded
    /\ data.rows # <<>>
    /\ \E env \in BatEnvs :
           \E out \in {Loop(data.rows, 1, env, sidebar)} :
               /\ results' = [present |-> TRUE, entries |-> out.entries]
               /\ trace' = out.trace
               /\ display' = Display(data, [present |-> TRUE, entries |-> out.entries],
                                     sidebar)
    /\ UNCHANGED <<data, sidebar, urlVars, cleanVars, exVars, cmpVars, refVars, edVars,
                   recVars, loadVars>>

\* the refresh button: the cache cleared, st.session_state.data = None, and the
\* script run that st.rerun() starts
Refresh ==
    /\ \E d \in Loaded(NoData) :
           /\ data' = d
           /\ display' = Display(d, results, sidebar)
    /\ UNCHANGED <<results, sidebar, trace, urlVars, cleanVars, exVars, cmpVars, refVars,
                   edVars, recVars, loadVars>>

NextBatch == Rerun \/ RunCheck \/ Refresh

SpecBatch == InitBatch /\ [][NextBatch]_vars

\* the document reference of a row is blank or holds no document id
BadDocReference(r) == r.doc_url = <<>> \/ ~HasDocId(r.doc_url)
\* the page URL of a row is blank or no http(s) URL
BadPageUrl(r) ==
    \/ r.base_page_url = <<>>
    \/ ~(StartsWith(r.base_page_url, HttpPrefix) \/ StartsWith(r.base_page_url, HttpsPrefix))

\* C15: in a batch run a record whose page URL or document reference is blank or
\* invalid gets a distinct error status and nothing is fetched, extracted or
\* compared for it; the batch is not aborted: every other record is processed,
\* and the results of the whole run are reported afterwards.
C15_InputMissingReported ==
    results.present =>
        /\ Len(results.entries) = Len(trace)
        /\ \A i \in 1..Len(trace) :
               IF BadPageUrl(trace[i].row) \/ BadDocReference(trace[i].row)
               THEN /\ "status" \in DOMAIN results.entries[i]
                    /\ results.entries[i].status = "error"
                    /\ ~trace[i].calls.get_page_text
                    /\ ~trace[i].calls.extract
                    /\ ~trace[i].calls.compare_ru
                    /\ ~trace[i].calls.compare_ua
               ELSE /\ "index" \in DOMAIN results.entries[i]
                    /\ trace[i].calls.compare_ru
        /\ display.kind \in {"table", "no_data"}

\* C22: after the refresh action the results of a check run over the previously
\* loaded worklist are no longer displayed: whenever results are displayed, they
\* were computed from the currently loaded worklist, row for row.
C22_NoStaleResults ==
    display.kind = "table" =>
        /\ Len(trace) = Len(data.rows)
        /\ \A i \in 1..Len(trace) : trace[i].row = data.rows[i]

\* the results in the session were computed from the worklist that is loaded now
ResultsOfLoaded ==
    /\ results.present
    /\ data.loaded
    /\ Len(trace) = Len(data.rows)
    /\ \A i \in 1..Len(trace) : trace[i].row = data.rows[i]

\* entry i of the results belongs to row i of the worklist
EntryOfRow(e, r, i) ==
    /\ e.doc_url = r.doc_url
    /\ IF BadPageUrl(r) THEN e.status = "error" /\ e.page_url_ru = r.base_page_url
       ELSE e.index = i - 1

\* the stored half of C23: one entry per row, in worklist order
OneEntryPerRow ==
    ResultsOfLoaded =>
        /\ Len(results.entries) = Len(data.rows)
        /\ \A i \in 1..Len(data.rows) : EntryOfRow(results.entries[i], data.rows[i], i)

\* C23: a completed batch run stores exactly one result entry per worklist row,
\* in worklist order, whether the row was processed or skipped for an invalid
\* URL, so the positional join of the results onto the worklist assigns every
\* row its own scores.
C23_PositionalJoin ==
    /\ OneEntryPerRow
    /\ ResultsOfLoaded =>
           /\ display.kind = "table"
           /\ \A k \in 1..Len(display.rows) :
                  LET r == display.rows[k]
                      e == results.entries[r.idx + 1]
                  IN  /\ r.scored
                      /\ r.question = data.rows[r.idx + 1].question
                      /\ <<r.min_ru, r.avg_ru, r.count_ru>> =
                             <<e.min_similarity_ru, e.avg_similarity_ru, e.missing_count_ru>>
                      /\ <<r.min_ua, r.avg_ua, r.count_ua>> =
                             <<e.min_similarity_ua, e.avg_similarity_ua, e.missing_count_ua>>

\* the bounds that every result of compare_texts keeps
ScoreBounds ==
    /\ result.min_score * result.avg_score.den <= result.avg_score.num
    /\ result.min_score \in 0..100
    /\ 0 <= result.avg_score.num
    /\ result.avg_score.num <= 100 * result.avg_score.den
    /\ Len(result.missing_fragments) <= Len(chunks)

\* C24 as stated: for every result of compare_texts, min_score <= avg_score, both
\* lie in 0..100 when the window scores do, there are at most as many missing
\* fragments as kept windows, and the missing list is non-empty if and only if
\* min_score < threshold.
C24_ScoreBoundsAsStated ==
    cmp_pc = "done" =>
        /\ ScoreBounds
        /\ result.missing_fragments # <<>> <=> result.min_score < threshold

\* C24, amended: the bounds hold for every result; the missing list is non-empty
\* if and only if min_score < threshold when at least one window was kept, and
\* with nothing to compare the result is (0.0, 0.0, []).
C24_ScoreBounds ==
    cmp_pc = "done" =>
        /\ ScoreBounds
        /\ IF chunks # <<>>
           THEN result.missing_fragments # <<>> <=> result.min_score < threshold
           ELSE result = ZeroResult

\* two windows with different scores, one of them below the threshold
C24_Witness ==
    /\ cmp_pc = "done"
    /\ Len(chunks) = 2
    /\ Len(result.missing_fragments) = 1
    /\ result.min_score * result.avg_score.den < result.avg_score.num

\* ---------------------------------------------------------------------------
\* load_data_from_sheets: the column names of the worklist
\* ---------------------------------------------------------------------------

\* the longest header row drawn cell by cell
MaxCols == 5

\* usecols=list(range(10)): the columns kept
ColumnLimit == 10

\* the two columns that dropna(subset=...) names
ColDoc ==
    <<1055, 1086, 1089, 1080, 1083, 1072, 1085, 1085, 1103, 32, 1085, 1072, 32, 1074,
      1110, 1076, 1087, 1086, 1074, 1110, 1076, 1100, 32, 1072, 1085, 1086, 1090, 1072,
      1094, 1110, 1102, 44, 32, 1072, 1085, 1082, 1086, 1088>>
ColSite ==
    <<1055, 1086, 1089, 1080, 1083, 1072, 1085, 1085, 1103, 32, 1085, 1072, 32, 1089,
      1072, 1081, 1090, 1110>>
RequiredColumns == {ColDoc, ColSite}

\* 'Unnamed.'
UnnamedPrefix == <<85, 110, 110, 97, 109, 101, 100, 46>>
\* str(n) of an f-string, for n >= 0
RECURSIVE Decimal(_)
Decimal(n) == IF n < 10 THEN <<48 + n>> ELSE Decimal(n \div 10) \o <<48 + (n % 10)>>

\* one step of `for i, col in enumerate(header)`: the name appended and the
\* counts after it
RenameStep(i, cell, col_counts) ==
    Only({IF col \in DOMAIN col_counts
          THEN [name |-> col \o <<USCORE>> \o Decimal(col_counts[col] + 1),
                counts |-> [col_counts EXCEPT ![col] = @ + 1]]
          ELSE [name |-> col,
                counts |-> [k \in DOMAIN col_counts \cup {col} |->
                               IF k = col THEN 0 ELSE col_counts[k]]]
          : col \in {IF cell = <<>> THEN UnnamedPrefix \o Decimal(i) ELSE cell}})

\* the loop over the header from its 0-based position i on
RECURSIVE RenameLoop(_, _, _)
RenameLoop(hdr, i, col_counts) ==
    IF i >= Len(hdr) THEN <<>>
    ELSE Only({<<step.name>> \o RenameLoop(hdr, i + 1, step.counts)
               : step \in {RenameStep(i, hdr[i + 1], col_counts)}})

\* new_columns of a header row; col_counts = {} before the loop
NewColumns(hdr) == RenameLoop(hdr, 0, <<>>)

\* df.iloc[:, :10] of a row or of the column names
FirstColumns(cells) ==
    SubSeq(cells, 1, IF Len(cells) > ColumnLimit THEN ColumnLimit ELSE Len(cells))

\* pd.DataFrame() of an empty sheet
EmptyFrame == [kind |-> "frame", columns |-> <<>>, rows |-> <<>>]

\* load_data_from_sheets() of the values of the sheet: None when dropna does not
\* find one of its columns (the KeyError is caught), else the frame without the
\* header row; the cells are strings, so dropna drops no row
load_data_from_sheets(values) ==
    IF values = <<>> THEN [columns |-> <<>>, df |-> EmptyFrame]
    ELSE Only({[columns |-> cols,
                df |-> IF \E c \in RequiredColumns :
                              \A k \in 1..Len(FirstColumns(cols)) : cols[k] # c
                       THEN [kind |-> "none", columns |-> <<>>, rows |-> <<>>]
                       ELSE [kind |-> "frame", columns |-> FirstColumns(cols),
                             rows |-> [k \in 1..(Len(values) - 1) |->
                                          FirstColumns(values[k + 1])]]]
               : cols \in {NewColumns(values[1])}})

\* header cells: empty, 'a', 'a_1', and the two required names
HeaderCells == {<<>>, <<97>>, <<97, 95, 49>>, ColDoc, ColSite}

\* a header wider than the column limit: the required names and nine more cells
WideHeaders ==
    {<<ColDoc, ColSite>> \o [k \in 1..(ColumnLimit - 1) |-> c] : c \in {<<>>, <<97>>}}

Headers == (SeqsUpTo(HeaderCells, MaxCols) \ {<<>>}) \cup WideHeaders

\* the sheets: empty, or a header row with no or one row of empty cells below
Sheets ==
    {<<>>} \cup {<<h>> \o [k \in 1..n |-> [j \in 1..Len(h) |-> <<>>]] :
                    h \in Headers, n \in 0..1}

InitLoad ==
    /\ load_pc = "input"
    /\ all_values \in Sheets
    /\ new_columns = <<>>
    /\ df = <<>>
    /\ UrlIdle
    /\ CleanIdle
    /\ ExIdle
    /\ CmpIdle
    /\ RefIdle
    /\ EdIdle
    /\ RecIdle
    /\ BatIdle

LoadData ==
    /\ load_pc = "input"
    /\ \E out \in {load_data_from_sheets(all_values)} :
           /\ new_columns' = out.columns
           /\ df' = out.df
    /\ load_pc' = "done"
    /\ UNCHANGED <<all_values, urlVars, cleanVars, exVars, cmpVars, refVars, edVars,
                   recVars, batVars>>

NextLoad == LoadData

SpecLoad == InitLoad /\ [][NextLoad]_vars

\* C25: load_data_from_sheets assigns pairwise distinct column names for every
\* header row: empty headers become 'Unnamed.<i>', a repeated header gets the
\* suffix '_<k>', and no two column names of the result are equal, also when the
\* header row holds a name such as 'a_1' next to a repeated 'a'.
C25_ColumnNamesDistinct ==
    load_pc = "done" =>
        /\ Len(new_columns) = (IF all_values = <<>> THEN 0 ELSE Len(all_values[1]))
        /\ \A j, k \in 1..Len(new_columns) : j # k => new_columns[j] # new_columns[k]

====
